---- MODULE Spec2Model ----
(***************************************************************************)
(* State-machine model of the custom authentication core of                *)
(* blog-api-strapi: the token service (access / refresh tokens), the       *)
(* email OTP provider and the controller handlers that drive them.         *)
(*                                                                         *)
(* Every handler is an async function.  Between two awaits its code runs   *)
(* without interruption; a store call takes effect as one statement.  A    *)
(* handler is therefore modelled as a sequence of steps: the Start step    *)
(* runs the code up to the first await, and each later step performs the   *)
(* awaited store call and the code that follows it up to the next await.   *)
(* Steps of different requests interleave freely.                          *)
(***************************************************************************)
EXTENDS Integers, Sequences, FiniteSets, TLC

VARIABLES
    now,            \* the clock read by new Date() / Date.now(), in minutes
    cfg,            \* process.env: [rotate, jwt, googleClientId]
    users,          \* table plugin::users-permissions.user (row id = index)
    refreshTokens,  \* table api::refresh-token.refresh-token (row id = index)
    otpCodes,       \* table api::otp-code.otp-code (row id = index)
    mails,          \* number of mails handed to the mail plugin
    req,            \* per request slot: the handler in flight and its locals
    resp,           \* the response sent by the step just taken, if any
    started,        \* number of requests received so far
    succ,           \* history: <<old, new>> plaintext pairs made by rotation
    otpLog,         \* history: per OtpCode row, hash comparisons made
    resolved        \* history: per findOrCreateUser call, options and user

vars == <<now, cfg, users, refreshTokens, otpCodes, mails, req, resp, started,
          succ, otpLog, resolved>>

----------------------------------------------------------------------------
(* Bounds of the model *)

MaxRequests == 4    \* requests received in one run
MaxTokens == 3      \* RefreshToken rows created in one run
MaxOtpRequests == 5 \* requests received in one run of the OTP sign-in
MaxOtps == 2         \* OtpCode rows created in one run
MaxRateRequests == 6 \* send-otp requests received in one run
MaxSignIns == 4      \* validated sign-ins received in one run
MaxEntryRequests == 3 \* requests received in one run of the entry points
MaxTaken == 4        \* usernames of one base that a user table holds

Procs == {"p1", "p2"}               \* concurrent request slots
\* the clients that sign in: <<user id, body.platform, user-agent header>>
SignIns == { <<1, "web", "ua1">>, <<1, "ios", "ua2">>, <<2, "android", "ua1">> }

----------------------------------------------------------------------------
(* Program constants *)

RefreshTtl == 7 * 24 * 60   \* JWT_REFRESH_TOKEN_EXPIRES_DAYS default, minutes
AccessTtl == 15             \* JWT_ACCESS_TOKEN_EXPIRES_IN default '15m'
OtpTtl == 10                \* OTP lifetime: 10 * 60 * 1000 ms
MaxAttempts == 3            \* attempt_count at which validate refuses
Hour == 60                  \* rate-limit window: 60 * 60 * 1000 ms
RateLimit == 5              \* rows in the window at which a request is limited

NoToken == 0        \* no cookie and no body.refreshToken
Forged == 99        \* a plaintext no generateRefreshToken call returned
NoId == 0           \* findOne found nothing / null
NoOtp == 0          \* no body.otp
NoField == ""       \* a body field that is missing
OurClientId == "client-1"   \* the value of GOOGLE_CLIENT_ID when it is set
NoTime == -1        \* a timestamp column holding NULL

\* crypto.createHash('sha256').update(x).digest('hex'): injective on the
\* values of the model, and never equal to its argument
Sha256(x) == <<"sha256", x>>

----------------------------------------------------------------------------
(* Token service *)

\* findOne({ where: { token_hash } }): the id of the matching row, or NoId
FindTokenByHash(rows, h) ==
    IF \E i \in DOMAIN rows : rows[i].token_hash = h
    THEN CHOOSE i \in DOMAIN rows :
            /\ rows[i].token_hash = h
            /\ \A j \in DOMAIN rows : rows[j].token_hash = h => i <= j
    ELSE NoId

ValidateNoRevokedCheck(rows, t, rawToken) ==
    LET id == FindTokenByHash(rows, Sha256(rawToken)) IN
    IF id = NoId THEN NoId
    ELSE IF t > rows[id].expires_at THEN NoId
    ELSE id

ValidateIgnoringExpiry(rows, t, rawToken) ==
    LET id == FindTokenByHash(rows, Sha256(rawToken)) IN
    IF id = NoId THEN NoId
    ELSE IF rows[id].revoked THEN NoId
    ELSE id

\* validateRefreshToken(rawToken) at clock t: the record's id, or NoId (null)
ValidateRefreshToken(rows, t, rawToken) ==
    LET id == FindTokenByHash(rows, Sha256(rawToken)) IN
    IF id = NoId THEN NoId
    ELSE IF rows[id].revoked THEN NoId
    ELSE IF t > rows[id].expires_at THEN NoId
    ELSE id

RevokeNothing(rows, t, rawToken, reason) == rows

RevokeOfSameUser(rows, t, rawToken, reason) ==
    LET id == FindTokenByHash(rows, Sha256(rawToken)) IN
    [i \in DOMAIN rows |->
        IF id # NoId /\ rows[i].user = rows[id].user
        THEN [rows[i] EXCEPT !.revoked = TRUE,
                             !.revoked_at = t,
                             !.revoked_reason = reason]
        ELSE rows[i]]

\* revokeRefreshToken(rawToken, reason): updateMany where token_hash matches
RevokeRefreshToken(rows, t, rawToken, reason) ==
    [i \in DOMAIN rows |->
        IF rows[i].token_hash = Sha256(rawToken)
        THEN [rows[i] EXCEPT !.revoked = TRUE,
                             !.revoked_at = t,
                             !.revoked_reason = reason]
        ELSE rows[i]]

RevokeAllOfEveryUser(rows, t, userId) ==
    [i \in DOMAIN rows |->
        IF ~rows[i].revoked
        THEN [rows[i] EXCEPT !.revoked = TRUE,
                             !.revoked_at = t,
                             !.revoked_reason = "logout"]
        ELSE rows[i]]

\* revokeAllUserRefreshTokens(userId): updateMany where user, revoked: false
RevokeAllUserRefreshTokens(rows, t, userId) ==
    [i \in DOMAIN rows |->
        IF rows[i].user = userId /\ ~rows[i].revoked
        THEN [rows[i] EXCEPT !.revoked = TRUE,
                             !.revoked_at = t,
                             !.revoked_reason = "logout"]
        ELSE rows[i]]

\* uuidv4(): a value no earlier call returned
NewRawToken(rows) == Len(rows) + 1

GenerateStoringPlain(rows, t, rawToken, userId, options) ==
    Append(rows, [token_hash     |-> <<"plain", rawToken>>,
                  user           |-> userId,
                  device_type    |-> options.deviceType,
                  device_info    |-> options.deviceInfo,
                  expires_at     |-> t + RefreshTtl,
                  last_used_at   |-> t,
                  revoked        |-> FALSE,
                  revoked_at     |-> NoTime,
                  revoked_reason |-> "null"])

\* generateRefreshToken(user, options): the table after the create
GenerateRefreshToken(rows, t, rawToken, userId, options) ==
    Append(rows, [token_hash     |-> Sha256(rawToken),
                  user           |-> userId,
                  device_type    |-> options.deviceType,
                  device_info    |-> options.deviceInfo,
                  expires_at     |-> t + RefreshTtl,
                  last_used_at   |-> t,
                  revoked        |-> FALSE,
                  revoked_at     |-> NoTime,
                  revoked_reason |-> "null"])

\* user.role?.type || user.role?.name || 'reader'
RoleClaim(role) ==
    IF role.type # "" THEN role.type
    ELSE IF role.name # "" THEN role.name
    ELSE "reader"

\* String(x): the decimal text of a number, never equal to the number
String(x) == <<"String", x>>

\* JWT_PRIVATE_KEY is set
HasPrivateKey == cfg.jwt = "private"
\* JWT_SECRET is set; read only when JWT_PRIVATE_KEY is not
HasSecret == cfg.jwt = "secret"

AlgorithmSecretFirst ==
    IF cfg.jwt = "none" THEN "throw"
    ELSE IF cfg.jwt = "secret" \/ cfg.jwt = "private" THEN "HS256" ELSE "RS256"

\* the algorithm generateAccessToken signs with, "throw" when neither
\* JWT_PRIVATE_KEY nor JWT_SECRET is set
Algorithm ==
    IF ~HasPrivateKey
    THEN IF ~HasSecret THEN "throw" ELSE "HS256"
    ELSE "RS256"

\* generateAccessToken(user): the signed claims, or "throw"
GenerateAccessToken(user, t) ==
    IF Algorithm = "throw" THEN [alg |-> "throw"]
    ELSE [alg      |-> Algorithm,
          sub      |-> String(user.id),
          email    |-> user.email,
          role     |-> RoleClaim(user.role),
          provider |-> IF user.auth_provider # "" THEN user.auth_provider
                       ELSE "local",
          exp      |-> t + AccessTtl]

NoAccess == [alg |-> "none"]

----------------------------------------------------------------------------
(* Requests and responses *)

Idle == [pc |-> "idle"]

\* the options of ctx.cookies.set('refreshToken', ...): none when the
\* response sets no cookie; maxAge in minutes
NoCookie == [httpOnly |-> FALSE, sameSite |-> "", maxAge |-> NoTime,
             path |-> ""]
RefreshCookie == [httpOnly |-> TRUE, sameSite |-> "strict",
                  maxAge |-> 7 * 24 * 60, path |-> "/api/auth"]
ClearedCookie == [RefreshCookie EXCEPT !.maxAge = 0]

NoResp == [to |-> "none", status |-> 0, msg |-> "", accessToken |-> NoAccess,
           refreshToken |-> NoToken, cookie |-> "none", cookieValue |-> NoToken,
           cookieOpts |-> NoCookie,
           user |-> NoId, retryAfter |-> 0, expiresIn |-> 0,
           by |-> Idle]

\* ctx.unauthorized(msg), ctx.badRequest(msg), ...: no token, no cookie
Reply(status, msg) == [NoResp EXCEPT !.status = status, !.msg = msg]

\* findOne({ where: { id }, populate: ['role'] }) on the user table
FindUserById(id) ==
    IF id \in DOMAIN users THEN [users[id] EXCEPT !.id = id] ELSE [id |-> NoId]

\* plaintext refresh tokens a client can hold: those returned so far
IssuedTokens == 1..Len(refreshTokens)

\* requests in flight that will still create a RefreshToken row
MayMint(p) == req[p].pc \in {"generate_refresh", "refresh_validate",
                             "refresh_load_user", "rotate_revoke",
                             "rotate_generate"}
Reserved == Cardinality({p \in Procs : MayMint(p)})
RoomToMint == Len(refreshTokens) + Reserved < MaxTokens

\* the handler of slot p returns after sending r; `by` keeps the locals
\* the handler held, to tell which request r answers
Finish(p, r) ==
    /\ req' = [req EXCEPT ![p] = Idle]
    /\ resp' = [r EXCEPT !.to = p, !.by = req[p]]

\* the handler of slot p reaches its next await with locals r
Goto(p, r) ==
    /\ req' = [req EXCEPT ![p] = r]
    /\ resp' = NoResp

\* slot p is free and receives a request
Receive(p) ==
    /\ req[p].pc = "idle"
    /\ started' = started + 1

----------------------------------------------------------------------------
(* buildAuthResponse: the tail of every sign-in handler *)

\* buildAuthResponse(ctx, strapi, user, platform) up to its await:
\* generateAccessToken, then generateRefreshToken is called
EnterAuthResponse(p, user, platform, ua) ==
    LET at == GenerateAccessToken(user, now) IN
    IF at.alg = "throw"
    THEN Finish(p, Reply(401, "JWT_SECRET or JWT_PRIVATE_KEY must be set"))
    ELSE Goto(p, [pc |-> "generate_refresh", user |-> user,
                  platform |-> platform, ua |-> ua, accessToken |-> at])

\* a sign-in whose provider check and user resolution ended with `user`
SignInResolved(p, userId, platform, ua) ==
    /\ Receive(p)
    /\ RoomToMint
    /\ EnterAuthResponse(p, FindUserById(userId), platform, ua)
    /\ UNCHANGED <<now, cfg, users, refreshTokens, otpCodes, mails, succ, otpLog>>
    /\ UNCHANGED resolved

SetsCookieAlways(platform) == TRUE

\* `if (platform === 'web')` of buildAuthResponse
SetsCookie(platform) == platform = "web"

\* the create of generateRefreshToken, then the cookie and ctx.send
AuthResponse(p) ==
    /\ req[p].pc = "generate_refresh"
    /\ LET r == req[p]
           raw == NewRawToken(refreshTokens)
           deviceType == IF r.platform \in {"ios", "android"}
                         THEN r.platform ELSE "web"
       IN
       /\ refreshTokens' = GenerateRefreshToken(refreshTokens, now, raw, r.user.id,
                               [deviceType |-> deviceType, deviceInfo |-> r.ua])
       /\ Finish(p, [NoResp EXCEPT
                        !.status = 200,
                        !.user = r.user.id,
                        !.accessToken = r.accessToken,
                        !.refreshToken = raw,
                        !.expiresIn = 900,
                        !.cookie = IF SetsCookie(r.platform) THEN "set"
                                   ELSE "none",
                        !.cookieValue = IF SetsCookie(r.platform) THEN raw
                                        ELSE NoToken,
                        !.cookieOpts = IF SetsCookie(r.platform)
                                       THEN RefreshCookie ELSE NoCookie])
    /\ UNCHANGED <<now, cfg, users, otpCodes, mails, succ, otpLog,
                   started>>
    /\ UNCHANGED resolved

----------------------------------------------------------------------------
(* POST /auth/refresh *)

\* the code of refresh up to `await tokenService.validateRefreshToken`
StartRefresh(p, rawToken) ==
    /\ Receive(p)
    /\ cfg.rotate => RoomToMint
    /\ IF rawToken = NoToken
       THEN Finish(p, Reply(401, "No refresh token provided"))
       ELSE Goto(p, [pc |-> "refresh_validate", rawToken |-> rawToken])
    /\ UNCHANGED <<now, cfg, users, refreshTokens, otpCodes, mails, succ, otpLog>>
    /\ UNCHANGED resolved

\* validateRefreshToken's findOne and the checks on its result
RefreshValidate(p) ==
    /\ req[p].pc = "refresh_validate"
    /\ LET id == ValidateRefreshToken(refreshTokens, now, req[p].rawToken) IN
       IF id = NoId
       THEN Finish(p, Reply(401, "Invalid or expired refresh token"))
       ELSE Goto(p, [pc |-> "refresh_load_user",
                     rawToken |-> req[p].rawToken,
                     record |-> [id |-> id,
                                 user |-> refreshTokens[id].user,
                                 device_type |-> refreshTokens[id].device_type,
                                 device_info |-> refreshTokens[id].device_info]])
    /\ UNCHANGED <<now, cfg, users, refreshTokens, otpCodes, mails, succ, otpLog,
                   started>>
    /\ UNCHANGED resolved

\* the user findOne, generateAccessToken and the choice to rotate
RefreshLoadUser(p) ==
    /\ req[p].pc = "refresh_load_user"
    /\ LET user == FindUserById(req[p].record.user) IN
       IF user.id = NoId
       THEN Finish(p, Reply(401, "User not found"))
       ELSE LET at == GenerateAccessToken(user, now) IN
            IF at.alg = "throw"
            THEN Finish(p, Reply(401, "Token refresh failed"))
            ELSE Goto(p, [pc |-> IF cfg.rotate THEN "rotate_revoke"
                                 ELSE "refresh_touch",
                          rawToken |-> req[p].rawToken,
                          record |-> req[p].record,
                          user |-> user,
                          accessToken |-> at])
    /\ UNCHANGED <<now, cfg, users, refreshTokens, otpCodes, mails, succ, otpLog,
                   started>>
    /\ UNCHANGED resolved

RotateSkipRevoke(p) ==
    /\ req[p].pc = "rotate_revoke"
    /\ Goto(p, [req[p] EXCEPT !.pc = "rotate_generate"])
    /\ UNCHANGED <<now, cfg, users, refreshTokens, otpCodes, mails, succ,
                   otpLog, started>>
    /\ UNCHANGED resolved

\* rotateRefreshToken, first await: revokeRefreshToken(old, 'rotated')
RotateRevoke(p) ==
    /\ req[p].pc = "rotate_revoke"
    /\ refreshTokens' =
           RevokeRefreshToken(refreshTokens, now, req[p].rawToken, "rotated")
    /\ Goto(p, [req[p] EXCEPT !.pc = "rotate_generate"])
    /\ UNCHANGED <<now, cfg, users, otpCodes, mails, succ, otpLog,
                   started>>
    /\ UNCHANGED resolved

\* rotateRefreshToken, second await: generateRefreshToken(user, options);
\* then the cookie and ctx.send of refresh
RotateGenerate(p) ==
    /\ req[p].pc = "rotate_generate"
    /\ LET r == req[p]
           raw == NewRawToken(refreshTokens)
       IN
       /\ refreshTokens' = GenerateRefreshToken(refreshTokens, now, raw, r.user.id,
                               [deviceType |-> r.record.device_type,
                                deviceInfo |-> r.record.device_info])
       /\ succ' = succ \cup {<<r.rawToken, raw>>}
       /\ Finish(p, [NoResp EXCEPT !.status = 200,
                                   !.accessToken = r.accessToken,
                                   !.refreshToken = raw,
                                   !.expiresIn = 900,
                                   !.cookie = "set",
                                   !.cookieValue = raw,
                                   !.cookieOpts = RefreshCookie])
    /\ UNCHANGED <<now, cfg, users, otpCodes, mails, otpLog,
                   started>>
    /\ UNCHANGED resolved

RefreshTouchExtending(p) ==
    /\ req[p].pc = "refresh_touch"
    /\ refreshTokens' =
           [i \in DOMAIN refreshTokens |->
               IF i = req[p].record.id
               THEN [refreshTokens[i] EXCEPT !.last_used_at = now,
                                             !.expires_at = now + RefreshTtl]
               ELSE refreshTokens[i]]
    /\ Finish(p, [NoResp EXCEPT !.status = 200,
                                !.accessToken = req[p].accessToken,
                                !.expiresIn = 900])
    /\ UNCHANGED <<now, cfg, users, otpCodes, mails, succ, otpLog,
                   started>>
    /\ UNCHANGED resolved

\* ROTATE_REFRESH_TOKENS off: update last_used_at of the record, then send
RefreshTouch(p) ==
    /\ req[p].pc = "refresh_touch"
    /\ refreshTokens' =
           [i \in DOMAIN refreshTokens |->
               IF i = req[p].record.id
               THEN [refreshTokens[i] EXCEPT !.last_used_at = now]
               ELSE refreshTokens[i]]
    /\ Finish(p, [NoResp EXCEPT !.status = 200,
                                !.accessToken = req[p].accessToken,
                                !.expiresIn = 900])
    /\ UNCHANGED <<now, cfg, users, otpCodes, mails, succ, otpLog,
                   started>>
    /\ UNCHANGED resolved

----------------------------------------------------------------------------
(* POST /auth/logout and POST /auth/logout-all *)

LoggedOut == [NoResp EXCEPT !.status = 200, !.msg = "Logged out successfully",
                            !.cookie = "clear", !.cookieOpts = ClearedCookie]

\* logout up to `await tokenService.revokeRefreshToken`
StartLogout(p, rawToken) ==
    /\ Receive(p)
    /\ IF rawToken = NoToken
       THEN Finish(p, LoggedOut)
       ELSE Goto(p, [pc |-> "logout_revoke", rawToken |-> rawToken])
    /\ UNCHANGED <<now, cfg, users, refreshTokens, otpCodes, mails, succ, otpLog>>
    /\ UNCHANGED resolved

\* revokeRefreshToken(rawToken, 'logout'), then the cookie and ctx.send
LogoutRevoke(p) ==
    /\ req[p].pc = "logout_revoke"
    /\ refreshTokens' =
           RevokeRefreshToken(refreshTokens, now, req[p].rawToken, "logout")
    /\ Finish(p, LoggedOut)
    /\ UNCHANGED <<now, cfg, users, otpCodes, mails, succ, otpLog,
                   started>>
    /\ UNCHANGED resolved

\* the updateMany of revokeRefreshToken rejects with a store error: the
\* catch of logout logs it and sends the success message
LogoutRevokeFails(p) ==
    /\ req[p].pc = "logout_revoke"
    /\ Finish(p, [Reply(200, "Logged out successfully") EXCEPT
                     !.cookie = "none"])
    /\ UNCHANGED <<now, cfg, users, refreshTokens, otpCodes, mails, succ,
                   otpLog, started>>
    /\ UNCHANGED resolved

\* logoutAll up to `await tokenService.revokeAllUserRefreshTokens`;
\* userId is ctx.state.user?.id, NoId for an unauthenticated caller
StartLogoutAll(p, userId) ==
    /\ Receive(p)
    /\ IF userId = NoId
       THEN Finish(p, Reply(401, "Authentication required"))
       ELSE Goto(p, [pc |-> "logout_all_revoke", userId |-> userId])
    /\ UNCHANGED <<now, cfg, users, refreshTokens, otpCodes, mails, succ, otpLog>>
    /\ UNCHANGED resolved

\* revokeAllUserRefreshTokens(userId), then the cookie and ctx.send
LogoutAllRevoke(p) ==
    /\ req[p].pc = "logout_all_revoke"
    /\ refreshTokens' =
           RevokeAllUserRefreshTokens(refreshTokens, now, req[p].userId)
    /\ Finish(p, [NoResp EXCEPT
                     !.status = 200,
                     !.msg = "Logged out from all devices successfully",
                     !.cookie = "clear", !.cookieOpts = ClearedCookie])
    /\ UNCHANGED <<now, cfg, users, otpCodes, mails, succ, otpLog,
                   started>>
    /\ UNCHANGED resolved

----------------------------------------------------------------------------
(* Email OTP provider *)

\* the rows findOne({ where: { email, used: false } }) matches
UnusedOtpRows(rows, email) ==
    {i \in DOMAIN rows : rows[i].email = email /\ ~rows[i].used}

FindOldestOtp(rows, email) ==
    LET m == UnusedOtpRows(rows, email) IN
    IF m = {} THEN NoId ELSE CHOOSE i \in m : \A j \in m : i <= j

\* findOne({ where: { email, used: false }, orderBy: { createdAt: 'desc' } }):
\* the id of the most recently created unused row of the email, or NoId.
\* Rows are created one at a time, so a later row has the later createdAt.
FindActiveOtp(rows, email) ==
    LET m == UnusedOtpRows(rows, email) IN
    IF m = {} THEN NoId ELSE CHOOSE i \in m : \A j \in m : j <= i

OtpCheckNoLimit(rows, t, email, otp) ==
    LET id == FindActiveOtp(rows, email) IN
    IF id = NoId THEN "not_found"
    ELSE IF t > rows[id].expires_at THEN "expired"
    ELSE IF rows[id].code_hash # Sha256(otp) THEN "mismatch"
    ELSE "match"

\* validate up to its first update: the outcome of the checks on the row
OtpCheck(rows, t, email, otp) ==
    LET id == FindActiveOtp(rows, email) IN
    IF id = NoId THEN "not_found"
    ELSE IF t > rows[id].expires_at THEN "expired"
    ELSE IF rows[id].attempt_count >= MaxAttempts THEN "too_many"
    ELSE IF rows[id].code_hash # Sha256(otp) THEN "mismatch"
    ELSE "match"

\* update({ where: { id }, data: { attempt_count: otpRecord.attempt_count + 1 } })
\* with the count read by the findOne
OtpIncrement(rows, id, readCount) ==
    [rows EXCEPT ![id].attempt_count = readCount + 1]

OtpLeaveUnused(rows, t, id) == rows

\* update({ where: { id }, data: { used: true, used_at: new Date() } })
OtpMarkUsed(rows, t, id) ==
    [rows EXCEPT ![id].used = TRUE, ![id].used_at = t]

NotFound == "No active OTP found for this email. Please request a new code."
Expired == "This code has expired. Please request a new code."
TooManyAttempts == "Too many incorrect attempts. Please request a new code."

\* the message thrown after a mismatch that made the count newCount
\* (the count starts at 0, so at most 2 attempts remain)
MismatchMessage(newCount) ==
    LET attemptsRemaining == MaxAttempts - newCount IN
    IF attemptsRemaining = 2 THEN "Invalid code. 2 attempts remaining."
    ELSE IF attemptsRemaining = 1 THEN "Invalid code. 1 attempt remaining."
    ELSE TooManyAttempts

\* generateAndStore(email) drawing `otp`: the table after the create
OtpStore(rows, t, email, otp) ==
    Append(rows, [email         |-> email,
                  code_hash     |-> Sha256(otp),
                  expires_at    |-> t + OtpTtl,
                  attempt_count |-> 0,
                  used          |-> FALSE,
                  used_at       |-> NoTime,
                  createdAt     |-> t])

IsRateLimitedAnyEmail(rows, t, email) ==
    Cardinality({i \in DOMAIN rows : rows[i].createdAt >= t - Hour})
        >= RateLimit

\* isRateLimited(email): count of the rows with createdAt >= one hour ago
IsRateLimited(rows, t, email) ==
    Cardinality({i \in DOMAIN rows :
                    rows[i].email = email /\ rows[i].createdAt >= t - Hour})
        >= RateLimit

----------------------------------------------------------------------------
(* findOrCreateUser and generateUniqueUsername *)

NoUser == [id |-> NoId]
AuthenticatedRole == [type |-> "authenticated", name |-> "Authenticated"]

\* an email address is <<characters of the local part, domain>>
NoEmail == << << >>, "" >>
WordChars == {"a", "b", "_"}        \* the characters [a-zA-Z0-9_] in use
\* the two addresses in use; their local parts sanitize to the same base
EmailA == << <<"a", ".", "b">>, "x.com" >>
EmailB == << <<"a", "_", "b">>, "y.com" >>

\* email.split('@')[0].replace(/[^a-zA-Z0-9_]/g, '_')
UsernameBase(email) ==
    [i \in DOMAIN email[1] |->
        IF email[1][i] \in WordChars THEN email[1][i] ELSE "_"]

\* `${base}_${attempt}`, and base itself before the first retry
UsernameTry(base, attempt) ==
    IF attempt = 0 THEN base ELSE base \o <<"_", attempt>>

FindNoUserByProvider(authProvider, providerId) == NoUser

\* findOne({ where: { auth_provider, provider_id }, populate: ['role'] })
FindUserByProvider(authProvider, providerId) ==
    LET m == {i \in DOMAIN users : /\ users[i].auth_provider = authProvider
                                   /\ users[i].provider_id = providerId} IN
    IF m = {} THEN NoUser ELSE users[CHOOSE i \in m : \A j \in m : i <= j]

\* the row holds the provider key of the options
HasKey(row, o) ==
    row.auth_provider = o.authProvider /\ row.provider_id = o.providerId

FindFirstUser(email) ==
    IF users = << >> THEN NoUser ELSE users[1]

\* findOne({ where: { email }, populate: ['role'] })
FindUserByEmail(email) ==
    LET m == {i \in DOMAIN users : users[i].email = email} IN
    IF m = {} THEN NoUser ELSE users[CHOOSE i \in m : \A j \in m : i <= j]

\* findOne({ where: { username } }) finds a row
UsernameExists(username) ==
    \E i \in DOMAIN users : users[i].username = username

NewUserRowNoRole(id, o, username) ==
    [id |-> id, email |-> o.email, username |-> username,
     auth_provider |-> o.authProvider, provider_id |-> o.providerId,
     display_name |-> o.displayName, avatar_url |-> o.avatarUrl,
     confirmed |-> o.confirmed, blocked |-> FALSE,
     role |-> [type |-> "", name |-> ""]]

\* the row create({ data: {...} }) inserts for the options of the sign-in
NewUserRow(id, o, username) ==
    [id |-> id, email |-> o.email, username |-> username,
     auth_provider |-> o.authProvider, provider_id |-> o.providerId,
     display_name |-> o.displayName, avatar_url |-> o.avatarUrl,
     confirmed |-> o.confirmed, blocked |-> FALSE, role |-> AuthenticatedRole]

UpdatedOverwriting(row, found, o) ==
    [row EXCEPT !.auth_provider = o.authProvider,
                !.provider_id = o.providerId,
                !.display_name = IF o.displayName # "" THEN o.displayName ELSE @,
                !.avatar_url = IF o.avatarUrl # "" THEN o.avatarUrl ELSE @]

UpdatedKeepingProvider(row, found, o) ==
    [row EXCEPT !.display_name = IF o.displayName # "" /\ found.display_name = ""
                                 THEN o.displayName ELSE @,
                !.avatar_url = IF o.avatarUrl # "" THEN o.avatarUrl ELSE @]

\* the row update({ where: { id: user.id }, data: {...} }) leaves, `found`
\* being the row as the earlier findOne read it
UpdatedUserRow(row, found, o) ==
    [row EXCEPT !.auth_provider = o.authProvider,
                !.provider_id = o.providerId,
                !.display_name = IF o.displayName # "" /\ found.display_name = ""
                                 THEN o.displayName ELSE @,
                !.avatar_url = IF o.avatarUrl # "" THEN o.avatarUrl ELSE @]

\* findOrCreateUser is entered: its first findOne is awaited
EnterFindOrCreate(p, o, platform, ua) ==
    Goto(p, [pc |-> "foc_find_provider", opts |-> o, platform |-> platform,
             ua |-> ua])

\* the findOne by (auth_provider, provider_id)
FocFindProvider(p) ==
    /\ req[p].pc = "foc_find_provider"
    /\ LET found == FindUserByProvider(req[p].opts.authProvider,
                                       req[p].opts.providerId)
           r == [pc |-> "foc_role", opts |-> req[p].opts,
                 platform |-> req[p].platform, ua |-> req[p].ua,
                 found |-> found]
       IN  IF found.id = NoId
           THEN Goto(p, [r EXCEPT !.pc = "foc_find_email"])
           ELSE Goto(p, r)
    /\ UNCHANGED <<now, cfg, users, refreshTokens, otpCodes, mails, started,
                   succ, otpLog>>
    /\ UNCHANGED resolved

\* the findOne by email
FocFindEmail(p) ==
    /\ req[p].pc = "foc_find_email"
    /\ Goto(p, [req[p] EXCEPT !.pc = "foc_role",
                              !.found = FindUserByEmail(req[p].opts.email)])
    /\ UNCHANGED <<now, cfg, users, refreshTokens, otpCodes, mails, started,
                   succ, otpLog>>
    /\ UNCHANGED resolved

\* the findOne of the authenticated role; then generateUniqueUsername is
\* entered (no user found) or the update is awaited
FocRole(p) ==
    /\ req[p].pc = "foc_role"
    /\ IF req[p].found.id = NoId
       THEN Goto(p, [pc |-> "foc_username", opts |-> req[p].opts,
                     platform |-> req[p].platform, ua |-> req[p].ua,
                     found |-> req[p].found,
                     base |-> UsernameBase(req[p].opts.email), attempt |-> 0])
       ELSE Goto(p, [req[p] EXCEPT !.pc = "foc_update"])
    /\ UNCHANGED <<now, cfg, users, refreshTokens, otpCodes, mails, started,
                   succ, otpLog>>
    /\ UNCHANGED resolved

FocUsernameUnchecked(p) ==
    /\ req[p].pc = "foc_username"
    /\ Goto(p, [req[p] EXCEPT !.pc = "foc_create"])
    /\ UNCHANGED <<now, cfg, users, refreshTokens, otpCodes, mails, started,
                   succ, otpLog>>
    /\ UNCHANGED resolved

\* one turn of generateUniqueUsername's loop: the findOne by username
FocUsername(p) ==
    /\ req[p].pc = "foc_username"
    /\ IF UsernameExists(UsernameTry(req[p].base, req[p].attempt))
       THEN Goto(p, [req[p] EXCEPT !.attempt = @ + 1])
       ELSE Goto(p, [req[p] EXCEPT !.pc = "foc_create"])
    /\ UNCHANGED <<now, cfg, users, refreshTokens, otpCodes, mails, started,
                   succ, otpLog>>
    /\ UNCHANGED resolved

NoUniqueViolation(row) == FALSE

\* the indexes up_users_email_unique and up_users_username_unique refuse
\* the row
UniqueViolation(row) ==
    \E i \in DOMAIN users :
        users[i].email = row.email \/ users[i].username = row.username

\* the create of the user, then buildAuthResponse up to its await; a create
\* that the unique indexes refuse throws into the handler's catch
FocCreate(p) ==
    /\ req[p].pc = "foc_create"
    /\ LET row == NewUserRow(Len(users) + 1, req[p].opts,
                             UsernameTry(req[p].base, req[p].attempt))
       IN  IF UniqueViolation(row)
           THEN /\ Finish(p, Reply(401, "unique constraint violated"))
                /\ UNCHANGED <<users, resolved>>
           ELSE
           /\ users' = Append(users, row)
           /\ EnterAuthResponse(p, row, req[p].platform, req[p].ua)
           /\ resolved' = Append(resolved, [opts |-> req[p].opts,
                                            user |-> row.id, key |-> FALSE])
    /\ UNCHANGED <<now, cfg, refreshTokens, otpCodes, mails, started, succ,
                   otpLog>>

\* the update of the user found, then buildAuthResponse up to its await
FocUpdate(p) ==
    /\ req[p].pc = "foc_update"
    /\ LET id == req[p].found.id
           row == UpdatedUserRow(users[id], req[p].found, req[p].opts)
       IN  /\ users' = [users EXCEPT ![id] = row]
           /\ EnterAuthResponse(p, row, req[p].platform, req[p].ua)
           /\ resolved' = Append(resolved,
                  [opts |-> req[p].opts, user |-> row.id,
                   key |-> HasKey(req[p].found, req[p].opts)])
    /\ UNCHANGED <<now, cfg, refreshTokens, otpCodes, mails, started, succ,
                   otpLog>>

----------------------------------------------------------------------------
(* The Google and Apple provider adapters, POST /auth/google and
   POST /auth/apple *)

\* what https://oauth2.googleapis.com/tokeninfo answers for an ID token:
\* whether response.ok, and the claims of response.json().  email_verified
\* is "true" for the boolean, "'true'" for the string, "false" otherwise
TokenInfo(idToken) ==
    LET claims == [ok |-> TRUE, aud |-> OurClientId,
                   iss |-> "accounts.google.com", exp |-> OtpTtl,
                   sub |-> "google-sub-1", email |-> EmailA, name |-> "G",
                   picture |-> "pic", email_verified |-> "'true'"]
    IN  CASE idToken = "g-ok" -> claims
          [] idToken = "g-https" ->
                [claims EXCEPT !.iss = "https://accounts.google.com",
                               !.email_verified = "true"]
          [] idToken = "g-other-app" -> [claims EXCEPT !.aud = "client-2"]
          [] idToken = "g-bad-issuer" -> [claims EXCEPT !.iss = "example.com"]
          [] idToken = "g-unverified" ->
                [claims EXCEPT !.sub = "google-sub-2",
                               !.email_verified = "false"]
          [] OTHER -> [claims EXCEPT !.ok = FALSE]

\* the checks of the Google adapter's validate on the answer `info`, the
\* clock reading t: the message of the error thrown (that of the audience
\* check up to its dash), or "ok"
GoogleCheck(clientId, t, info) ==
    IF ~info.ok THEN "Invalid Google ID token"
    ELSE IF clientId # NoField /\ info.aud # clientId
    THEN "Google token audience mismatch"
    ELSE IF info.iss \notin {"accounts.google.com",
                             "https://accounts.google.com"}
    THEN "Invalid Google token issuer"
    ELSE IF t > info.exp THEN "Google token has expired"
    ELSE "ok"

\* the options googleAuth passes to findOrCreateUser from the value
\* validate returned
GoogleOptions(info) ==
    [email |-> info.email, authProvider |-> "google",
     providerId |-> info.sub, displayName |-> info.name,
     avatarUrl |-> info.picture,
     confirmed |-> info.email_verified \in {"true", "'true'"}]

\* googleAuth up to `await googleProvider.validate`
StartGoogleAuth(p, idToken, platform, ua) ==
    /\ Receive(p)
    /\ IF idToken = NoField \/ platform = NoField
       THEN Finish(p, Reply(400, "idToken and platform are required"))
       ELSE Goto(p, [pc |-> "google_validate", idToken |-> idToken,
                     platform |-> platform, ua |-> ua])
    /\ UNCHANGED <<now, cfg, users, refreshTokens, otpCodes, mails, succ,
                   otpLog, resolved>>

GoogleValidateAccepting(p) ==
    /\ req[p].pc = "google_validate"
    /\ EnterFindOrCreate(p, GoogleOptions(TokenInfo(req[p].idToken)),
                         req[p].platform, req[p].ua)
    /\ UNCHANGED <<now, cfg, users, refreshTokens, otpCodes, mails, started,
                   succ, otpLog, resolved>>

\* validate: the fetch of tokeninfo and the checks on its answer; then
\* findOrCreateUser is entered, or the throw reaches the handler's catch
GoogleValidate(p) ==
    /\ req[p].pc = "google_validate"
    /\ LET info == TokenInfo(req[p].idToken)
           outcome == GoogleCheck(cfg.googleClientId, now, info)
       IN  IF outcome = "ok"
           THEN EnterFindOrCreate(p, GoogleOptions(info), req[p].platform,
                                  req[p].ua)
           ELSE Finish(p, Reply(401, outcome))
    /\ UNCHANGED <<now, cfg, users, refreshTokens, otpCodes, mails, started,
                   succ, otpLog, resolved>>

\* what https://appleid.apple.com/auth/token answers for an authorization
\* code: whether response.ok, whether jwt.decode reads its id_token, and
\* the claims decoded
AppleExchange(code) ==
    LET claims == [ok |-> TRUE, decoded |-> TRUE, sub |-> "apple-sub-1",
                   email |-> EmailB, email_verified |-> "true"]
    IN  CASE code = "a-ok" -> claims
          [] code = "a-garbled" -> [claims EXCEPT !.decoded = FALSE]
          [] OTHER -> [claims EXCEPT !.ok = FALSE]

\* exchangeCode and decodeIdToken: the message of the error thrown, or "ok"
AppleCheck(answer) ==
    IF ~answer.ok THEN "Apple token exchange failed"
    ELSE IF ~answer.decoded THEN "Invalid Apple ID token"
    ELSE "ok"

\* the options appleAuth passes to findOrCreateUser; `name` is what
\* buildNameFromCredentials made of body.user
AppleOptions(answer, name) ==
    [email |-> answer.email, authProvider |-> "apple",
     providerId |-> answer.sub, displayName |-> name, avatarUrl |-> "",
     confirmed |-> answer.email_verified = "true"]

\* appleAuth up to `await appleProvider.validate`
StartAppleAuth(p, code, platform, name, ua) ==
    /\ Receive(p)
    /\ IF code = NoField \/ platform = NoField
       THEN Finish(p, Reply(400, "code and platform are required"))
       ELSE Goto(p, [pc |-> "apple_validate", code |-> code,
                     platform |-> platform, name |-> name, ua |-> ua])
    /\ UNCHANGED <<now, cfg, users, refreshTokens, otpCodes, mails, succ,
                   otpLog, resolved>>

\* validate: the token exchange with Apple and the decoding of the ID
\* token; then findOrCreateUser is entered, or the throw reaches the
\* handler's catch
AppleValidate(p) ==
    /\ req[p].pc = "apple_validate"
    /\ LET answer == AppleExchange(req[p].code)
           outcome == AppleCheck(answer)
       IN  IF outcome = "ok"
           THEN EnterFindOrCreate(p, AppleOptions(answer, req[p].name),
                                  req[p].platform, req[p].ua)
           ELSE Finish(p, Reply(401, outcome))
    /\ UNCHANGED <<now, cfg, users, refreshTokens, otpCodes, mails, started,
                   succ, otpLog, resolved>>

----------------------------------------------------------------------------
(* POST /auth/email/send-otp and POST /auth/email/verify-otp *)

StartSendOtpUnagreed(p, email, agreedToTerms) ==
    /\ Receive(p)
    /\ IF email = NoEmail
       THEN Finish(p, Reply(400, "email is required"))
       ELSE Goto(p, [pc |-> "otp_rate_limit", email |-> email])
    /\ UNCHANGED <<now, cfg, users, refreshTokens, otpCodes, mails, succ, otpLog>>
    /\ UNCHANGED resolved

\* emailSendOtp up to `await emailProvider.isRateLimited(email)`
StartSendOtp(p, email, agreedToTerms) ==
    /\ Receive(p)
    /\ IF email = NoEmail
       THEN Finish(p, Reply(400, "email is required"))
       ELSE IF ~agreedToTerms
       THEN Finish(p, Reply(400, "You must agree to the Terms of Service and Privacy Policy"))
       ELSE Goto(p, [pc |-> "otp_rate_limit", email |-> email])
    /\ UNCHANGED <<now, cfg, users, refreshTokens, otpCodes, mails, succ, otpLog>>
    /\ UNCHANGED resolved

SendOtpIgnoreLimit(p) ==
    /\ req[p].pc = "otp_rate_limit"
    /\ Goto(p, [req[p] EXCEPT !.pc = "otp_store"])
    /\ UNCHANGED <<now, cfg, users, refreshTokens, otpCodes, mails, started,
                   succ, otpLog>>
    /\ UNCHANGED resolved

\* the count of isRateLimited and the 429 or the call of generateAndStore
SendOtpRateLimit(p) ==
    /\ req[p].pc = "otp_rate_limit"
    /\ IF IsRateLimited(otpCodes, now, req[p].email)
       THEN Finish(p, [Reply(429, "Too many OTP requests. Please try again in 60 minutes.") EXCEPT
                          !.retryAfter = 3600])
       ELSE Goto(p, [req[p] EXCEPT !.pc = "otp_store"])
    /\ UNCHANGED <<now, cfg, users, refreshTokens, otpCodes, mails, started,
                   succ, otpLog>>
    /\ UNCHANGED resolved

\* the create of generateAndStore with the code crypto.randomInt drew
SendOtpStore(p, otp) ==
    /\ req[p].pc = "otp_store"
    /\ otpCodes' = OtpStore(otpCodes, now, req[p].email, otp)
    /\ otpLog' = Append(otpLog, [wrong |-> 0, right |-> 0])
    /\ Goto(p, [pc |-> "otp_mail", email |-> req[p].email, otp |-> otp])
    /\ UNCHANGED <<now, cfg, users, refreshTokens, mails, started, succ>>
    /\ UNCHANGED resolved

\* the send of the mail plugin, then ctx.send
SendOtpMail(p) ==
    /\ req[p].pc = "otp_mail"
    /\ mails' = mails + 1
    /\ Finish(p, [Reply(200, "Verification code sent to your email") EXCEPT
                     !.expiresIn = 600])
    /\ UNCHANGED <<now, cfg, users, refreshTokens, otpCodes, started, succ,
                   otpLog>>
    /\ UNCHANGED resolved

\* emailVerifyOtp up to the findOne of emailProvider.validate
StartVerifyOtp(p, email, otp, ua) ==
    /\ Receive(p)
    /\ IF email = NoEmail \/ otp = NoOtp
       THEN Finish(p, Reply(400, "email and otp are required"))
       ELSE Goto(p, [pc |-> "otp_find", email |-> email, otp |-> otp,
                     ua |-> ua])
    /\ UNCHANGED <<now, cfg, users, refreshTokens, otpCodes, mails, succ, otpLog>>
    /\ UNCHANGED resolved

\* validate: the findOne, the checks on the row and the hash comparison
VerifyOtpFind(p) ==
    /\ req[p].pc = "otp_find"
    /\ LET id == FindActiveOtp(otpCodes, req[p].email)
           outcome == OtpCheck(otpCodes, now, req[p].email, req[p].otp)
           r == [pc |-> "otp_increment", email |-> req[p].email,
                 otp |-> req[p].otp, ua |-> req[p].ua,
                 otpRecord |-> [id |-> id,
                                attempt_count |-> otpCodes[id].attempt_count]]
       IN  CASE outcome = "not_found" ->
                  /\ Finish(p, Reply(401, NotFound))
                  /\ UNCHANGED otpLog
             [] outcome = "expired" ->
                  /\ Finish(p, Reply(401, Expired))
                  /\ UNCHANGED otpLog
             [] outcome = "too_many" ->
                  /\ Finish(p, Reply(401, TooManyAttempts))
                  /\ UNCHANGED otpLog
             [] outcome = "mismatch" ->
                  /\ Goto(p, r)
                  /\ otpLog' = [otpLog EXCEPT ![id].wrong = @ + 1]
             [] outcome = "match" ->
                  /\ Goto(p, [r EXCEPT !.pc = "otp_mark_used"])
                  /\ UNCHANGED otpLog
    /\ UNCHANGED <<now, cfg, users, refreshTokens, otpCodes, mails, started,
                   succ>>
    /\ UNCHANGED resolved

\* validate: the update of attempt_count, then the throw caught by the
\* handler
VerifyOtpIncrement(p) ==
    /\ req[p].pc = "otp_increment"
    /\ otpCodes' = OtpIncrement(otpCodes, req[p].otpRecord.id,
                                req[p].otpRecord.attempt_count)
    /\ Finish(p, Reply(401, MismatchMessage(req[p].otpRecord.attempt_count + 1)))
    /\ UNCHANGED <<now, cfg, users, refreshTokens, mails, started, succ, otpLog>>
    /\ UNCHANGED resolved

\* validate: the update that marks the row used; validate returns and
\* findOrCreateUser is entered
VerifyOtpMarkUsed(p) ==
    /\ req[p].pc = "otp_mark_used"
    /\ otpCodes' = OtpMarkUsed(otpCodes, now, req[p].otpRecord.id)
    /\ otpLog' = [otpLog EXCEPT ![req[p].otpRecord.id].right = @ + 1]
    /\ EnterFindOrCreate(p, [email |-> req[p].email,
                             authProvider |-> "email",
                             providerId |-> req[p].email,
                             displayName |-> "", avatarUrl |-> "",
                             confirmed |-> TRUE],
                         "email", req[p].ua)
    /\ UNCHANGED <<now, cfg, users, refreshTokens, mails, started, succ>>
    /\ UNCHANGED resolved

----------------------------------------------------------------------------
(* The clock *)

\* the instants at which the clock is read: the start, the last instant of
\* a lifetime ttl that began at the start, and the first instant after it
Instants(ttl) == {0, ttl, ttl + 1}

\* time passes between two steps
Tick(ttl) ==
    /\ \E t \in Instants(ttl) : t > now /\ now' = t
    /\ resp' = NoResp
    /\ UNCHANGED <<cfg, users, refreshTokens, otpCodes, mails, req, started,
                   succ, otpLog>>
    /\ UNCHANGED resolved

----------------------------------------------------------------------------
(* The token life cycle: sign-ins of existing users, refresh, logout *)


\* the user table after a first email sign-in and a first Google sign-in
TwoUsers ==
    << NewUserRow(1, [email |-> EmailA, authProvider |-> "email",
                      providerId |-> EmailA, displayName |-> "",
                      avatarUrl |-> "", confirmed |-> TRUE],
                  UsernameTry(UsernameBase(EmailA), 0)),
       NewUserRow(2, [email |-> EmailB, authProvider |-> "google",
                      providerId |-> "google-sub-b", displayName |-> "B",
                      avatarUrl |-> "", confirmed |-> TRUE],
                  UsernameTry(UsernameBase(EmailB), 1)) >>

\* process.env: ROTATE_REFRESH_TOKENS === 'true'; the key material is
\* "private" when JWT_PRIVATE_KEY is set (JWT_SECRET is then not read),
\* "secret" when only JWT_SECRET is set, "none" when neither is
Configs == [rotate : BOOLEAN, jwt : {"private", "secret", "none"},
            googleClientId : {OurClientId}]

\* the token table a deployment finds at its start: empty, or, where the
\* key material is missing, holding the token an earlier, keyed deployment
\* issued to user 1
EarlierTokens ==
    GenerateRefreshToken(<< >>, 0, 1, 1,
                         [deviceType |-> "web", deviceInfo |-> "ua1"])

TokenInit ==
    /\ now = 0
    /\ cfg \in Configs
    /\ users = TwoUsers
    /\ refreshTokens = IF cfg.jwt = "none" THEN EarlierTokens ELSE << >>
    /\ otpCodes = << >>
    /\ mails = 0
    /\ req = [p \in Procs |-> Idle]
    /\ resp = NoResp
    /\ started = 0
    /\ succ = {}
    /\ resolved = << >>
    /\ otpLog = << >>

PresentedTokens == IssuedTokens \cup {NoToken, Forged}
Callers == DOMAIN users \cup {NoId}

TokenStart(p) ==
    \/ \E c \in SignIns : SignInResolved(p, c[1], c[2], c[3])
    \/ \E t \in PresentedTokens : StartRefresh(p, t)
    \/ \E t \in PresentedTokens : StartLogout(p, t)
    \/ \E u \in Callers : StartLogoutAll(p, u)

TokenStep(p) ==
    \/ AuthResponse(p)
    \/ RefreshValidate(p)
    \/ RefreshLoadUser(p)
    \/ RotateRevoke(p)
    \/ RotateGenerate(p)
    \/ RefreshTouch(p)
    \/ LogoutRevoke(p)
    \/ LogoutRevokeFails(p)
    \/ LogoutAllRevoke(p)

Next ==
    \/ \E p \in Procs : started < MaxRequests /\ TokenStart(p)
    \/ \E p \in Procs : TokenStep(p)
    \/ Tick(RefreshTtl)

Spec == TokenInit /\ [][Next]_vars

\* requests run one after another: a request starts when none is in flight
NoneInFlight == \A q \in Procs : req[q].pc = "idle"

----------------------------------------------------------------------------
(* The email OTP sign-in: send-otp and verify-otp on an empty store *)

Emails == {EmailA, EmailB}
Codes == {111111, 222222}       \* values crypto.randomInt(100000, 999999) draws

OtpInit ==
    /\ now = 0
    /\ cfg = [rotate |-> FALSE, jwt |-> "private",
              googleClientId |-> OurClientId]
    /\ users = << >>
    /\ refreshTokens = << >>
    /\ otpCodes = << >>
    /\ mails = 0
    /\ req = [p \in Procs |-> Idle]
    /\ resp = NoResp
    /\ started = 0
    /\ succ = {}
    /\ resolved = << >>
    /\ otpLog = << >>

\* a request body arrives, its email among `emails` or missing
OtpStart(p, emails) ==
    \/ \E e \in emails \cup {NoEmail}, a \in BOOLEAN : StartSendOtp(p, e, a)
    \/ \E e \in emails \cup {NoEmail}, c \in Codes \cup {NoOtp} :
          StartVerifyOtp(p, e, c, "ua1")

OtpStep(p) ==
    \/ SendOtpRateLimit(p)
    \/ \E c \in Codes : Len(otpCodes) < MaxOtps /\ SendOtpStore(p, c)
    \/ SendOtpMail(p)
    \/ VerifyOtpFind(p)
    \/ VerifyOtpIncrement(p)
    \/ VerifyOtpMarkUsed(p)
    \/ FocFindProvider(p)
    \/ FocFindEmail(p)
    \/ FocRole(p)
    \/ FocUsername(p)
    \/ FocCreate(p)
    \/ FocUpdate(p)
    \/ AuthResponse(p)

\* requests for one address, their steps interleaved
OtpNext ==
    \/ \E p \in Procs : started < MaxOtpRequests /\ OtpStart(p, {EmailA})
    \/ \E p \in Procs : OtpStep(p)
    \/ Tick(OtpTtl)

OtpSpec == OtpInit /\ [][OtpNext]_vars

\* requests for two addresses, run one after another
OtpSeqNext ==
    \/ \E p \in Procs :
          started < MaxOtpRequests /\ NoneInFlight /\ OtpStart(p, Emails)
    \/ \E p \in Procs : OtpStep(p)
    \/ Tick(OtpTtl)

OtpSeqSpec == OtpInit /\ [][OtpSeqNext]_vars

----------------------------------------------------------------------------
(* Properties of the token life cycle *)

RowOf(rawToken) == FindTokenByHash(refreshTokens, Sha256(rawToken))
Validates(rawToken) == ValidateRefreshToken(refreshTokens, now, rawToken) # NoId

\* slot p takes the step that leaves pc `from` and ends its request
Completes(p, from) == req[p].pc = from /\ req'[p].pc = "idle"

\* a step keeps every issued token's expiry instant, and a token that had
\* stopped validating does not validate after the step
StaysInvalid ==
    \A t \in IssuedTokens :
        /\ ~Validates(t) => ~Validates(t)'
        /\ refreshTokens'[RowOf(t)'].expires_at =
              refreshTokens[RowOf(t)].expires_at

\* a token issued by the step validates and expires one lifetime later
IssuedValid ==
    \A t \in IssuedTokens' \ IssuedTokens :
        /\ Validates(t)'
        /\ refreshTokens'[RowOf(t)'].expires_at = now + RefreshTtl

\* C1: a refresh token that generateRefreshToken issued validates (with its
\* own record) exactly while its row is not revoked and the clock is not
\* past expires_at; it validates when issued, its expiry instant is issuance
\* plus the lifetime and never moves, and once it has stopped validating it
\* never validates again.
C1_ValidatesUntilRevokedOrExpired ==
    /\ [](\A t \in IssuedTokens :
            /\ RowOf(t) # NoId
            /\ ValidateRefreshToken(refreshTokens, now, t) =
                 IF ~refreshTokens[RowOf(t)].revoked
                    /\ now <= refreshTokens[RowOf(t)].expires_at
                 THEN RowOf(t) ELSE NoId)
    /\ [][StaysInvalid /\ IssuedValid]_vars

\* C1 witness: one issued token is past its expiry and was never revoked,
\* another was revoked within its lifetime, and a third still validates at
\* its expiry instant
C1_Witness ==
    \E t1, t2, t3 \in IssuedTokens :
        /\ ~refreshTokens[RowOf(t1)].revoked
        /\ now > refreshTokens[RowOf(t1)].expires_at
        /\ ~Validates(t1)
        /\ refreshTokens[RowOf(t2)].revoked
        /\ now <= refreshTokens[RowOf(t2)].expires_at
        /\ ~Validates(t2)
        /\ Validates(t3)

\* the step by which slot p's refresh request completes a rotation leaves
\* the old row revoked with one of `reasons` and the returned token valid,
\* owned by the old token's user and carrying the old row's device fields
RotationDone(p, reasons) ==
    Completes(p, "rotate_generate") =>
        LET t1 == req[p].rawToken
            t2 == resp'.refreshToken
            old == refreshTokens'[FindTokenByHash(refreshTokens', Sha256(t1))]
            new == refreshTokens'[FindTokenByHash(refreshTokens', Sha256(t2))]
        IN  /\ resp'.status = 200
            /\ old.revoked /\ old.revoked_reason \in reasons
            /\ ValidateRefreshToken(refreshTokens', now', t1) = NoId
            /\ ValidateRefreshToken(refreshTokens', now', t2) # NoId
            /\ new.user = req[p].user.id /\ new.user = old.user
            /\ new.device_type = old.device_type
            /\ new.device_info = old.device_info

RotationRevoked(p) ==
    req[p].pc = "rotate_revoke" /\ req'[p].pc = "rotate_generate" =>
        LET old == refreshTokens'[FindTokenByHash(refreshTokens',
                                                  Sha256(req[p].rawToken))]
        IN  old.revoked /\ old.revoked_reason = "rotated"

\* a row's reason rotated is replaced only by a logout that presents the
\* row's token, and only with the reason logout
RotatedUntilLogout ==
    \A i \in DOMAIN refreshTokens :
        refreshTokens[i].revoked_reason = "rotated"
        /\ refreshTokens'[i].revoked_reason # "rotated" =>
            /\ refreshTokens'[i].revoked_reason = "logout"
            /\ \E q \in Procs : /\ Completes(q, "logout_revoke")
                                 /\ RowOf(req[q].rawToken) = i

C3_OneSuccessor ==
    cfg.rotate =>
        \A pr1, pr2 \in succ : pr1[1] = pr2[1] => pr1[2] = pr2[2]

\* C4: in every state, also between the two awaits of rotateRefreshToken, a
\* superseded token and its replacement are never both valid: the old row
\* is revoked whenever the replacement row exists or is about to be created.
C4_NeverBothValid ==
    /\ \A pr \in succ :
          /\ RowOf(pr[1]) # NoId /\ RowOf(pr[2]) # NoId
          /\ refreshTokens[RowOf(pr[1])].revoked
          /\ ~(Validates(pr[1]) /\ Validates(pr[2]))
    /\ \A p \in Procs :
          req[p].pc = "rotate_generate" =>
              /\ refreshTokens[RowOf(req[p].rawToken)].revoked
              /\ ~Validates(req[p].rawToken)

\* C4 witness: one rotation is between its revoke and its create while the
\* replacement made by an earlier rotation validates
C4_Witness ==
    /\ \E p \in Procs : req[p].pc = "rotate_generate"
    /\ \E pr \in succ : Validates(pr[2])

\* the step by which slot p's logout-all request runs the bulk revoke
LogoutAllDone(p) ==
    Completes(p, "logout_all_revoke") =>
        /\ Len(refreshTokens') = Len(refreshTokens)
        /\ \A i \in DOMAIN refreshTokens :
              LET before == refreshTokens[i]
                  after == refreshTokens'[i]
              IN  IF before.user = req[p].userId /\ ~before.revoked
                  THEN /\ after.revoked
                       /\ after.revoked_reason = "logout"
                       /\ after.revoked_at = now
                       /\ [after EXCEPT !.revoked = before.revoked,
                                        !.revoked_at = before.revoked_at,
                                        !.revoked_reason = before.revoked_reason]
                            = before
                  ELSE after = before
        /\ \A t \in IssuedTokens :
              refreshTokens[RowOf(t)].user = req[p].userId => ~Validates(t)'

\* C5: revokeAllUserRefreshTokens(U) revokes, with reason logout, every row
\* of U that was not revoked, so that no token of U validates after it, and
\* leaves the rows of other users and the already revoked rows of U as they
\* were.
C5_LogoutAllRevokesOnlyTheUsers ==
    [][\A p \in Procs : LogoutAllDone(p)]_vars

\* C5 witness: logout-all has just answered; the user has a row revoked by
\* it and a row revoked earlier by rotation, and another user's token still
\* validates
C5_Witness ==
    /\ resp.msg = "Logged out from all devices successfully"
    /\ \E i, j, k \in DOMAIN refreshTokens :
          /\ refreshTokens[i].user = refreshTokens[j].user
          /\ refreshTokens[i].revoked_reason = "rotated"
          /\ refreshTokens[j].revoked_reason = "logout"
          /\ refreshTokens[j].revoked_at = now
          /\ refreshTokens[k].user # refreshTokens[i].user
          /\ ~refreshTokens[k].revoked

----------------------------------------------------------------------------
(* Properties of the email OTP sign-in *)

\* slot p runs the findOne and the checks of validate
Validating(p) == req[p].pc = "otp_find" /\ req'[p] # req[p]

\* a validate that selects a row whose attempt_count has reached 3 fails
\* and writes nothing; `expiryFirst` tells whether a row that is also past
\* its expiry is answered with Expired
ExhaustedFails(p, expiryFirst) ==
    LET id == FindActiveOtp(otpCodes, req[p].email) IN
    Validating(p) /\ id # NoId /\ otpCodes[id].attempt_count >= MaxAttempts =>
        /\ req'[p].pc = "idle"
        /\ resp'.status = 401
        /\ resp'.msg = IF expiryFirst /\ now > otpCodes[id].expires_at
                       THEN Expired ELSE TooManyAttempts
        /\ otpCodes' = otpCodes
        /\ otpLog' = otpLog

\* a row is compared with at most 3 incorrect guesses and is never used
\* once its count has reached 3
ThreeGuesses ==
    \A i \in DOMAIN otpCodes :
        /\ otpLog[i].wrong <= MaxAttempts
        /\ otpCodes[i].attempt_count >= MaxAttempts => ~otpCodes[i].used

\* a row whose count has reached 3 is not written again
ExhaustedInert ==
    \A i \in DOMAIN otpCodes :
        otpCodes[i].attempt_count >= MaxAttempts => otpCodes'[i] = otpCodes[i]

\* C6 (as claimed): with validate calls run one after another, at most 3
\* incorrect guesses are compared against a row; once attemptCount has
\* reached 3 every further validate against the row fails with
\* TooManyAttempts, the correct code included, and the row is never marked
\* used.
C6_AsClaimed ==
    /\ []ThreeGuesses
    /\ [][ExhaustedInert /\ \A p \in Procs : ExhaustedFails(p, FALSE)]_vars

\* C6 (amended): as claimed, except that a further validate against the row
\* fails with Expired once the row's expiry instant has passed, and with
\* TooManyAttempts until then.
C6_ExhaustedRowRejects ==
    /\ []ThreeGuesses
    /\ [][ExhaustedInert /\ \A p \in Procs : ExhaustedFails(p, TRUE)]_vars

\* C6 witness: after 3 incorrect guesses against a row, the row's correct
\* code has just been rejected by the attempt check within the row's
\* lifetime, and the row is unused
C6_Witness ==
    /\ resp.status = 401 /\ resp.msg = TooManyAttempts
    /\ resp.by.pc = "otp_find"
    /\ LET id == FindActiveOtp(otpCodes, resp.by.email) IN
          /\ id # NoId
          /\ otpCodes[id].code_hash = Sha256(resp.by.otp)
          /\ otpLog[id].wrong = MaxAttempts
          /\ otpCodes[id].attempt_count = MaxAttempts
          /\ now <= otpCodes[id].expires_at
          /\ ~otpCodes[id].used

\* the update that marks a row used is made on an unused row
MarksUnusedRow(p) ==
    req[p].pc = "otp_mark_used" /\ req'[p] # req[p] =>
        ~otpCodes[req[p].otpRecord.id].used

\* C7: with validate calls run one after another, a row yields at most one
\* successful validation: it is used exactly when it has yielded one, and a
\* validation never succeeds against a row that is already used.
C7_UsedOnce ==
    /\ [](\A i \in DOMAIN otpCodes :
            /\ otpLog[i].right <= 1
            /\ otpCodes[i].used <=> otpLog[i].right = 1)
    /\ [][\A p \in Procs : MarksUnusedRow(p)]_vars

\* C7 witness: a row was used by a successful validation, and a later
\* validate submitting the same correct code for the same email has just
\* been rejected
C7_Witness ==
    /\ resp.status = 401 /\ resp.msg = NotFound
    /\ resp.by.pc = "otp_find"
    /\ \E i \in DOMAIN otpCodes :
          /\ otpCodes[i].email = resp.by.email
          /\ otpCodes[i].code_hash = Sha256(resp.by.otp)
          /\ otpCodes[i].used
          /\ otpLog[i].right = 1

\* slot p holds a read of row i whose increment is still to be written
IncrementPending(i) ==
    \E p \in Procs : req[p].pc = "otp_increment" /\ req[p].otpRecord.id = i

\* C8 (as claimed): under any interleaving of validate calls, at most 3
\* incorrect guesses are compared against a row's code hash, and no
\* increment is lost: once every increment is written, attemptCount is the
\* number of incorrect guesses compared.
C8_AtMostThreeCompared ==
    \A i \in DOMAIN otpCodes :
        /\ otpLog[i].wrong <= MaxAttempts
        /\ ~IncrementPending(i) => otpCodes[i].attempt_count = otpLog[i].wrong

\* C9 (as claimed): under any interleaving of validate calls, every row has
\* 0 <= attemptCount <= 3, attemptCount never decreases from one state to
\* the next, and a row with used=true is not written again.
C9_MonotoneAndInert ==
    /\ [](\A i \in DOMAIN otpCodes :
            otpCodes[i].attempt_count \in 0..MaxAttempts)
    /\ [][\A i \in DOMAIN otpCodes :
            /\ otpCodes'[i].attempt_count >= otpCodes[i].attempt_count
            /\ otpCodes[i].used => otpCodes'[i] = otpCodes[i]]_vars

\* C10 (as claimed): under any interleaving of validate calls that submit
\* the correct code of one unused row, at most one succeeds, and one OTP
\* never produces two sessions: there are no more sessions than used rows.
C10_OneSessionPerOtp ==
    /\ \A i \in DOMAIN otpCodes : otpLog[i].right <= 1
    /\ Len(refreshTokens) <= Cardinality({i \in DOMAIN otpCodes : otpCodes[i].used})

----------------------------------------------------------------------------
(* Properties of emailProvider.validate and isRateLimited *)

\* the unused rows of the email none of which was created later
NewestUnused(email) ==
    {i \in DOMAIN otpCodes :
        /\ otpCodes[i].email = email /\ ~otpCodes[i].used
        /\ \A j \in DOMAIN otpCodes :
              otpCodes[j].email = email /\ ~otpCodes[j].used => j <= i}

\* slot p's validate is answered msg at its checks and writes no row
FailsUnchanged(p, msg) ==
    /\ req'[p].pc = "idle"
    /\ resp'.status = 401 /\ resp'.msg = msg
    /\ otpCodes' = otpCodes

\* the findOne and the checks of slot p's validate decide on the newest
\* unused row of the email, in the order NotFound, Expired,
\* TooManyAttempts, hash comparison
ChecksInOrder(p) ==
    Validating(p) =>
        LET sel == NewestUnused(req[p].email) IN
        IF sel = {} THEN FailsUnchanged(p, NotFound)
        ELSE \A i \in sel :
            IF now > otpCodes[i].expires_at THEN FailsUnchanged(p, Expired)
            ELSE IF otpCodes[i].attempt_count >= MaxAttempts
                 THEN FailsUnchanged(p, TooManyAttempts)
            ELSE /\ req'[p].otpRecord.id = i
                 /\ req'[p].pc =
                       IF otpCodes[i].code_hash = Sha256(req[p].otp)
                       THEN "otp_mark_used" ELSE "otp_increment"

\* C11: validate decides on the most recently created unused row of the
\* email and applies its checks in the order NotFound, Expired,
\* TooManyAttempts, and only then the hash comparison; a call failing with
\* one of the three changes no row.
C11_ChecksInOrder ==
    [][\A p \in Procs : ChecksInOrder(p)]_vars

\* C11 witness: a validate has matched the code of the newer of two unused
\* rows of one email whose older row holds another code
C11_Witness ==
    \E p \in Procs :
        /\ req[p].pc = "otp_mark_used"
        /\ req[p].otpRecord.id = 2
        /\ otpCodes[1].email = otpCodes[2].email
        /\ ~otpCodes[1].used /\ ~otpCodes[2].used
        /\ otpCodes[1].code_hash # otpCodes[2].code_hash

\* `Invalid code. ${n} attempt${n === 1 ? '' : 's'} remaining.`
InvalidCode(n) ==
    IF n = 2 THEN "Invalid code. 2 attempts remaining."
    ELSE IF n = 1 THEN "Invalid code. 1 attempt remaining."
    ELSE "Invalid code. 0 attempts remaining."

\* the step by which slot p's validate writes its increment and fails
MismatchAnswered(p) ==
    Completes(p, "otp_increment") =>
        LET k == req[p].otpRecord.attempt_count
            id == req[p].otpRecord.id
        IN  /\ otpCodes'[id].attempt_count = k + 1
            /\ resp'.status = 401
            /\ resp'.msg = InvalidCode(MaxAttempts - (k + 1))

\* C12 (as claimed): a validate whose code does not match a selected row
\* read with attemptCount = k, k in 0..2, stores k+1 before it returns and
\* fails with InvalidCode reporting 3 - (k+1) attempts remaining, also for
\* k = 2.
C12_MismatchReportsRemaining ==
    [][\A p \in Procs : MismatchAnswered(p)]_vars

----------------------------------------------------------------------------
(* The OTP request cadence: send-otp requests for two addresses over an
   hour, on a store that is empty or holds one earlier code *)

\* the store after that code was used to sign in
OneCodeUsed ==
    /\ otpCodes = OtpMarkUsed(OtpStore(<< >>, 0, EmailA, 111111), 0, 1)
    /\ otpLog = << [wrong |-> 0, right |-> 1] >>
    /\ users = << NewUserRow(1, [email |-> EmailA, authProvider |-> "email",
                                 providerId |-> EmailA, displayName |-> "",
                                 avatarUrl |-> "", confirmed |-> TRUE],
                             UsernameTry(UsernameBase(EmailA), 0)) >>
    /\ refreshTokens = GenerateRefreshToken(<< >>, 0, 1, 1,
                           [deviceType |-> "web", deviceInfo |-> "ua1"])

\* the store after three wrong guesses at that code
OneCodeExhausted ==
    /\ otpCodes = OtpIncrement(OtpStore(<< >>, 0, EmailA, 111111), 1, 2)
    /\ otpLog = << [wrong |-> 3, right |-> 0] >>
    /\ users = << >>
    /\ refreshTokens = << >>

RateInit ==
    /\ now = 0
    /\ cfg = [rotate |-> FALSE, jwt |-> "private",
              googleClientId |-> OurClientId]
    /\ \/ /\ otpCodes = << >> /\ otpLog = << >> /\ mails = 0
          /\ users = << >> /\ refreshTokens = << >>
       \/ OneCodeUsed /\ mails = 1
       \/ OneCodeExhausted /\ mails = 1
    /\ req = [p \in Procs |-> Idle]
    /\ resp = NoResp
    /\ started = 0
    /\ succ = {}
    /\ resolved = << >>

RateStep(p) ==
    \/ SendOtpRateLimit(p)
    \/ SendOtpStore(p, 222222)
    \/ SendOtpMail(p)

RateNext ==
    \/ \E p \in Procs, e \in Emails :
          started < MaxRateRequests /\ StartSendOtp(p, e, TRUE)
    \/ \E p \in Procs : RateStep(p)
    \/ Tick(Hour)

RateSpec == RateInit /\ [][RateNext]_vars

\* the rows of the email created within the hour that ends now
RecentRows(email) ==
    {i \in DOMAIN otpCodes :
        otpCodes[i].email = email /\ now - otpCodes[i].createdAt <= Hour}

\* slot p's send-otp gets the answer of isRateLimited
RateChecked(p) == req[p].pc = "otp_rate_limit" /\ req'[p] # req[p]

\* C13: isRateLimited(e) is true exactly when at least 5 rows of e were
\* created within the trailing hour, whatever their used flag, expiry and
\* attempt count; rows of other emails and older rows do not count. The
\* request is refused exactly in that case.
C13_FiveWithinTheHour ==
    /\ [](\A e \in Emails :
            IsRateLimited(otpCodes, now, e) <=>
                Cardinality(RecentRows(e)) >= RateLimit)
    /\ [][\A p \in Procs :
            RateChecked(p) =>
                (req'[p].pc = "idle" <=>
                    Cardinality(RecentRows(req[p].email)) >= RateLimit)]_vars

\* C13 witness: a request for an email has just been refused an hour after
\* its 5 rows were created, one of them used or exhausted and all of them
\* expired, while the other email has a row of its own
C13_Witness ==
    /\ resp.status = 429 /\ resp.by.pc = "otp_rate_limit"
    /\ now = Hour
    /\ Cardinality(RecentRows(resp.by.email)) = RateLimit
    /\ \A i \in RecentRows(resp.by.email) : otpCodes[i].createdAt = 0
    /\ \E i \in RecentRows(resp.by.email) :
          otpCodes[i].used \/ otpCodes[i].attempt_count = MaxAttempts
    /\ \E i \in DOMAIN otpCodes : otpCodes[i].email # resp.by.email

\* C14: when isRateLimited(email) is true, emailSendOtp answers 429 with a
\* Retry-After header and ends, having created no row and sent no mail.
C14_RateLimitedRejects ==
    [][\A p \in Procs :
        RateChecked(p) /\ IsRateLimited(otpCodes, now, req[p].email) =>
            /\ req'[p].pc = "idle"
            /\ resp'.status = 429 /\ resp'.retryAfter = 3600
            /\ otpCodes' = otpCodes
            /\ mails' = mails]_vars

\* C14 witness: a sixth request within the hour has just been refused and
\* the store holds the 5 rows, each mailed
C14_Witness ==
    /\ resp.status = 429 /\ resp.retryAfter = 3600
    /\ now = 0
    /\ Len(otpCodes) = RateLimit /\ mails = RateLimit

----------------------------------------------------------------------------
(* The identity resolver: sign-ins of two addresses through three
   providers on an empty user table *)

\* the options each handler passes to findOrCreateUser once its provider
\* has validated the credentials: an email OTP for either address, one
\* Google account whose address is EmailA and later EmailB, and one Apple
\* account with EmailA
EmailOtp(email) ==
    [email |-> email, authProvider |-> "email", providerId |-> email,
     displayName |-> "", avatarUrl |-> "", confirmed |-> TRUE]
GoogleAccount(email) ==
    [email |-> email, authProvider |-> "google", providerId |-> "google-sub-1",
     displayName |-> "G", avatarUrl |-> "pic", confirmed |-> TRUE]
AppleAccount ==
    [email |-> EmailA, authProvider |-> "apple", providerId |-> "apple-sub-1",
     displayName |-> "Ap", avatarUrl |-> "", confirmed |-> TRUE]

\* <<options, platform, user-agent>> of the sign-ins
Validated ==
    << <<EmailOtp(EmailA), "email", "ua1">>,
       <<EmailOtp(EmailB), "email", "ua1">>,
       <<GoogleAccount(EmailA), "web", "ua1">>,
       <<GoogleAccount(EmailB), "web", "ua1">>,
       <<AppleAccount, "ios", "ua2">> >>

\* appleAuth, googleAuth or emailVerifyOtp after the provider's validate
\* returned: findOrCreateUser is called
SignInValidated(p, o, platform, ua) ==
    /\ Receive(p)
    /\ EnterFindOrCreate(p, o, platform, ua)
    /\ UNCHANGED <<now, cfg, users, refreshTokens, otpCodes, mails, succ,
                   otpLog, resolved>>

ResolveInit ==
    /\ now = 0
    /\ cfg = [rotate |-> FALSE, jwt |-> "private",
              googleClientId |-> OurClientId]
    /\ users = << >>
    /\ refreshTokens = << >>
    /\ otpCodes = << >>
    /\ mails = 0
    /\ req = [p \in Procs |-> Idle]
    /\ resp = NoResp
    /\ started = 0
    /\ succ = {}
    /\ otpLog = << >>
    /\ resolved = << >>

ResolveStep(p) ==
    \/ FocFindProvider(p)
    \/ FocFindEmail(p)
    \/ FocRole(p)
    \/ FocUsername(p)
    \/ FocCreate(p)
    \/ FocUpdate(p)
    \/ AuthResponse(p)

\* sign-ins whose steps interleave
ResolveNext ==
    \/ \E p \in Procs, i \in DOMAIN Validated :
          /\ started < MaxSignIns
          /\ SignInValidated(p, Validated[i][1], Validated[i][2],
                             Validated[i][3])
    \/ \E p \in Procs : ResolveStep(p)

ResolveSpec == ResolveInit /\ [][ResolveNext]_vars

\* sign-ins run one after another
ResolveSeqNext ==
    \/ \E p \in Procs, i \in DOMAIN Validated :
          /\ started < MaxSignIns /\ NoneInFlight
          /\ SignInValidated(p, Validated[i][1], Validated[i][2],
                             Validated[i][3])
    \/ \E p \in Procs : ResolveStep(p)

ResolveSeqSpec == ResolveInit /\ [][ResolveSeqNext]_vars

----------------------------------------------------------------------------
(* Properties of the identity resolver *)

\* the User rows that hold the email
Holding(email) == {u \in DOMAIN users : users[u].email = email}

\* resolutions i and j presented one email through different providers
SameEmailOtherProvider(i, j) ==
    /\ resolved[i].opts.email = resolved[j].opts.email
    /\ resolved[i].opts.authProvider # resolved[j].opts.authProvider

\* C15 (as claimed): with sign-ins run one after another, two sign-ins
\* that present one email through different providers resolve to the same
\* User row, and exactly one User row holds that email.
C15_AsClaimed ==
    \A i, j \in DOMAIN resolved :
        SameEmailOtherProvider(i, j) =>
            /\ resolved[i].user = resolved[j].user
            /\ Cardinality(Holding(resolved[i].opts.email)) = 1

\* resolution i ended on a row that holds another email than the one
\* presented
Diverted(i) == users[resolved[i].user].email # resolved[i].opts.email

\* C15 (amended): as claimed for the sign-ins that are not matched by
\* their (authProvider, providerId) key to a row holding another email;
\* only a match by that key resolves a sign-in to such a row.
C15_SameEmailConverges ==
    /\ \A i \in DOMAIN resolved : Diverted(i) => resolved[i].key
    /\ \A i, j \in DOMAIN resolved :
          SameEmailOtherProvider(i, j) /\ ~Diverted(i) /\ ~Diverted(j) =>
              /\ resolved[i].user = resolved[j].user
              /\ Cardinality(Holding(resolved[i].opts.email)) = 1

\* C15 witness: an email OTP sign-in, then a Google sign-in with the same
\* email, resolved to the one User row there is, now linked to Google
C15_Witness ==
    /\ Len(resolved) = 2 /\ Len(users) = 1
    /\ resolved[1].opts.authProvider = "email"
    /\ resolved[2].opts.authProvider = "google"
    /\ resolved[1].opts.email = resolved[2].opts.email
    /\ resolved[1].user = resolved[2].user
    /\ users[1].auth_provider = "google"

\* C16: with resolve operations run one after another, no two User rows
\* share an (authProvider, providerId) pair whose authProvider is not
\* local, and no two User rows share an email.
C16_KeysAndEmailsUnique ==
    \A u, v \in DOMAIN users :
        u # v =>
            /\ users[u].email # users[v].email
            /\ ~(/\ users[u].auth_provider # "local"
                 /\ users[u].auth_provider = users[v].auth_provider
                 /\ users[u].provider_id = users[v].provider_id)

\* C16 witness: after four sign-ins there are two User rows, and one
\* sign-in was matched by its provider key to the row of another email
C16_Witness ==
    /\ Len(users) = 2 /\ Len(resolved) = 4
    /\ \E i \in DOMAIN resolved : resolved[i].key /\ Diverted(i)

\* the update of slot p's resolve sets the provider key to the method just
\* used, backfills an empty displayName, refreshes avatarUrl when one is
\* supplied and writes nothing else, on the row found and on no other
UpdateFrame(p) ==
    req[p].pc = "foc_update" /\ req'[p] # req[p] =>
        LET id == req[p].found.id
            o == req[p].opts
            before == users[id]
            after == users'[id]
        IN  /\ Len(users') = Len(users)
            /\ \A u \in DOMAIN users : u # id => users'[u] = users[u]
            /\ after.auth_provider = o.authProvider
            /\ after.provider_id = o.providerId
            /\ after.display_name =
                  IF before.display_name = "" /\ o.displayName # ""
                  THEN o.displayName ELSE before.display_name
            /\ after.avatar_url =
                  IF o.avatarUrl # "" THEN o.avatarUrl ELSE before.avatar_url
            /\ after.email = before.email
            /\ after.username = before.username
            /\ after.confirmed = before.confirmed
            /\ after.blocked = before.blocked
            /\ after.role = before.role

\* the lookups of slot p's resolve: a row holding the provider key is the
\* one found, whichever row holds the email; the email decides only when
\* no row holds the key
KeyFirst(p) ==
    LET o == req[p].opts
        keyed == {u \in DOMAIN users : HasKey(users[u], o)}
    IN  /\ req[p].pc = "foc_find_provider" /\ req'[p] # req[p] =>
              IF keyed = {} THEN req'[p].pc = "foc_find_email"
              ELSE req'[p].pc = "foc_role" /\ req'[p].found.id \in keyed
        /\ req[p].pc = "foc_find_email" /\ req'[p] # req[p] =>
              /\ keyed = {}
              /\ IF Holding(o.email) = {} THEN req'[p].found.id = NoId
                 ELSE req'[p].found.id \in Holding(o.email)

\* C17: when resolve finds an existing user (by provider key, else by
\* email) it sets authProvider and providerId to the method just used,
\* writes displayName only if the stored one is empty and one is supplied,
\* writes avatarUrl whenever one is supplied, and leaves email, username,
\* confirmed, blocked and role unchanged; the lookup by provider key takes
\* precedence over the lookup by email.
C17_UpdateFrame ==
    [][\A p \in Procs : UpdateFrame(p) /\ KeyFirst(p)]_vars

\* C17 witness: a Google sign-in backfilled the displayName of the user an
\* email OTP created, and an Apple sign-in that supplies another name and
\* no avatar has just relinked the user and left name and avatar alone
C17_Witness ==
    /\ Len(resolved) = 3 /\ Len(users) = 1
    /\ resolved[1].opts.authProvider = "email"
    /\ resolved[2].opts.authProvider = "google"
    /\ resolved[3].opts.authProvider = "apple"
    /\ resolved[3].opts.displayName = "Ap"
    /\ users[1].auth_provider = "apple"
    /\ users[1].display_name = "G" /\ users[1].avatar_url = "pic"

----------------------------------------------------------------------------
(* Properties of refresh, logout and revokeRefreshToken *)

\* why a presented token is unusable
Absent(t) == RowOf(t) = NoId
Revoked(t) == RowOf(t) # NoId /\ refreshTokens[RowOf(t)].revoked
PastExpiry(t) ==
    RowOf(t) # NoId /\ now > refreshTokens[RowOf(t)].expires_at
Unusable(t) == Absent(t) \/ Revoked(t) \/ PastExpiry(t)

\* the answer of the refresh endpoint to an unusable token, whatever the
\* cause, and the store left as it was
RefusedAlike(p) ==
    req[p].pc = "refresh_validate" /\ req'[p] # req[p]
    /\ Unusable(req[p].rawToken) =>
        /\ req'[p].pc = "idle"
        /\ [resp' EXCEPT !.to = "none", !.by = Idle] =
              Reply(401, "Invalid or expired refresh token")
        /\ UNCHANGED <<users, refreshTokens, otpCodes>>

\* C18: for refresh requests that differ only in why the token is unusable
\* (no row, row revoked, row expired) validateRefreshToken returns null
\* alike, the endpoint sends one and the same response, and the store is
\* not changed.
C18_UnusableAlike ==
    /\ [](\A t \in PresentedTokens \ {NoToken} :
            Unusable(t) => ValidateRefreshToken(refreshTokens, now, t) = NoId)
    /\ [][\A p \in Procs : RefusedAlike(p)]_vars

\* C18 witness: a refresh presenting an unrevoked token past its expiry has
\* just been refused, in a store that also holds a revoked token within its
\* lifetime
C18_Witness ==
    /\ resp.status = 401 /\ resp.by.pc = "refresh_validate"
    /\ PastExpiry(resp.by.rawToken) /\ ~Revoked(resp.by.rawToken)
    /\ \E t \in IssuedTokens : Revoked(t) /\ ~PastExpiry(t)

\* slot p's logout request ends with the step: at its revoke, or at once
\* when no token was presented
LogoutEnds(p) ==
    \/ Completes(p, "logout_revoke")
    \/ /\ req[p].pc = "idle" /\ req'[p].pc = "idle"
       /\ started' = started + 1
       /\ resp'.to = p /\ resp'.msg = "Logged out successfully"

\* C19 (as claimed): every logout request ends with a success response and
\* with the refresh cookie cleared, whether no token was presented, the
\* token matched no row, the revoke succeeded, or the revoke failed with a
\* store error.
C19_LogoutAlwaysClears ==
    [][\A p \in Procs :
        LogoutEnds(p) =>
            /\ resp'.status = 200
            /\ resp'.msg = "Logged out successfully"
            /\ resp'.cookie = "clear"]_vars

\* slot p's step is a call of revokeRefreshToken(req[p].rawToken, reason)
\* that returned: the revoke of a rotation, or the revoke of a logout that
\* went on to clear the cookie
Revokes(p, reason) ==
    \/ /\ reason = "rotated"
       /\ req[p].pc = "rotate_revoke" /\ req'[p].pc = "rotate_generate"
    \/ /\ reason = "logout"
       /\ Completes(p, "logout_revoke") /\ resp'.cookie = "clear"

\* row i of the token table can still be exchanged at the current clock
Usable(rows, i) == ~rows[i].revoked /\ now <= rows[i].expires_at

\* the effect of one revoke on the token table: the row of the presented
\* token is marked, every other row is left as it was
RevokeFrame(p, reason) ==
    /\ DOMAIN refreshTokens' = DOMAIN refreshTokens
    /\ \A i \in DOMAIN refreshTokens :
          IF refreshTokens[i].token_hash = Sha256(req[p].rawToken)
          THEN /\ refreshTokens'[i].revoked
               /\ refreshTokens'[i].revoked_at = now
               /\ refreshTokens'[i].revoked_reason = reason
               /\ [refreshTokens'[i] EXCEPT !.revoked = FALSE,
                                            !.revoked_at = NoTime,
                                            !.revoked_reason = "null"] =
                  [refreshTokens[i] EXCEPT !.revoked = FALSE,
                                           !.revoked_at = NoTime,
                                           !.revoked_reason = "null"]
          ELSE /\ refreshTokens'[i] = refreshTokens[i]
               /\ Usable(refreshTokens, i) => Usable(refreshTokens', i)
    /\ UNCHANGED <<users, otpCodes, now>>

\* C20: revokeRefreshToken(plaintext, reason) changes only the row whose
\* token_hash is the hash of plaintext, setting revoked, revoked_at = now and
\* revoked_reason = reason, and changes nothing when no row matches; a logout
\* leaves every other refresh token of the same user usable.
C20_RevokeFrame ==
    [][\A p \in Procs : \A reason \in {"rotated", "logout"} :
        Revokes(p, reason) => RevokeFrame(p, reason)]_vars

\* C20 witness: a logout has just revoked one token of a user who holds
\* another token that is still usable
C20_Witness ==
    /\ resp.msg = "Logged out successfully" /\ resp.cookie = "clear"
    /\ \E i, j \in DOMAIN refreshTokens :
          /\ i # j
          /\ refreshTokens[i].user = refreshTokens[j].user
          /\ refreshTokens[i].revoked
          /\ refreshTokens[i].revoked_reason = "logout"
          /\ refreshTokens[i].revoked_at = now
          /\ Usable(refreshTokens, j)

----------------------------------------------------------------------------
(* Properties of the sign-in response and of the access token *)

\* slot p's step is the one that ends a successful login: the create of
\* the refresh token in buildAuthResponse, followed by the response
LoginSucceeds(p) == Completes(p, "generate_refresh")

\* the delivery of the two tokens by the response of slot p's login
Delivered(p) ==
    /\ resp'.status = 200
    /\ resp'.accessToken = req[p].accessToken
    /\ resp'.accessToken.alg \in {"RS256", "HS256"}
    /\ resp'.refreshToken # NoToken
    /\ Len(refreshTokens') = Len(refreshTokens) + 1
    /\ refreshTokens'[Len(refreshTokens')].token_hash =
           Sha256(resp'.refreshToken)
    /\ req[p].platform = "web" =>
           /\ resp'.cookie = "set"
           /\ resp'.cookieValue = resp'.refreshToken
           /\ resp'.cookieOpts.httpOnly
           /\ resp'.cookieOpts.sameSite = "strict"
           /\ resp'.cookieOpts.path = "/api/auth"
           /\ resp'.cookieOpts.maxAge = 7 * 24 * 60
    /\ req[p].platform \in {"ios", "android"} =>
           /\ resp'.cookie = "none"
           /\ resp'.cookieValue = NoToken
           /\ resp'.cookieOpts = NoCookie

\* C21: every successful login returns the access token and the refresh
\* token in the response body; for platform web the refresh token is also
\* set as an http-only, strict-same-site cookie of path /api/auth and of
\* max-age 7 days, and for platform ios or android no cookie is set.
C21_TokenDelivery ==
    [][\A p \in Procs : LoginSucceeds(p) => Delivered(p)]_vars

\* C21 witness: a web login and a native login have both been answered,
\* the last one answered being the native one
C21_Witness ==
    /\ resp.status = 200 /\ resp.refreshToken # NoToken
    /\ resp.by.pc = "generate_refresh" /\ resp.by.platform = "ios"
    /\ resp.cookie = "none"
    /\ \E i \in DOMAIN refreshTokens :
          /\ refreshTokens[i].device_type = "web"
          /\ refreshTokens[i].token_hash # Sha256(resp.refreshToken)

\* a user the users-permissions plugin registered itself: no provider,
\* no role attached, holding EmailB and the username derived from it
LocalUser ==
    [id |-> 1, email |-> EmailB, username |-> UsernameBase(EmailB),
     auth_provider |-> "", provider_id |-> "", display_name |-> "",
     avatar_url |-> "", confirmed |-> TRUE, blocked |-> FALSE,
     role |-> [type |-> "", name |-> ""]]

\* the sign-ins of the identity resolver on a user table that is empty or
\* holds the local user
LoginInit ==
    /\ now = 0
    /\ cfg = [rotate |-> FALSE, jwt |-> "secret",
              googleClientId |-> OurClientId]
    /\ users \in { << >>, <<LocalUser>> }
    /\ refreshTokens = << >>
    /\ otpCodes = << >>
    /\ mails = 0
    /\ req = [p \in Procs |-> Idle]
    /\ resp = NoResp
    /\ started = 0
    /\ succ = {}
    /\ otpLog = << >>
    /\ resolved = << >>

LoginSpec == LoginInit /\ [][ResolveNext]_vars

\* slot p's step ends findOrCreateUser and mints the access token
Mints(p) ==
    /\ req[p].pc \in {"foc_create", "foc_update"}
    /\ req'[p].pc = "generate_refresh"

\* the claims of the token slot p's step minted, but for the role, against
\* the row of the resolved user as the step left it
ClaimsMatch(p) ==
    LET at == req'[p].accessToken
        u == users'[req'[p].user.id]
    IN  /\ req'[p].user.id = resolved'[Len(resolved')].user
        /\ at.sub = String(req'[p].user.id)
        /\ at.email = u.email
        /\ at.provider = u.auth_provider
        /\ at.provider = req[p].opts.authProvider
        /\ at.exp = now + AccessTtl

\* C22 (as claimed): the access token minted by a successful login has
\* subject = the resolved user's id, email = the user's email, role = the
\* name of the user's role (reader when the user has no role), provider =
\* the user's authProvider = the provider of the login, and expires after
\* the access-token lifetime.
C22_AsClaimed ==
    [][\A p \in Procs :
        Mints(p) =>
            /\ ClaimsMatch(p)
            /\ LET role == users'[req'[p].user.id].role IN
               req'[p].accessToken.role =
                   IF role.name # "" THEN role.name ELSE "reader"]_vars

\* C22 (amended): as above, the role claim being the type of the user's
\* role ("authenticated" for the default role, whose name is
\* "Authenticated"), its name when it has no type, and reader when the
\* user has no role.
C22_ClaimsOfMintedToken ==
    [][\A p \in Procs :
        Mints(p) =>
            /\ ClaimsMatch(p)
            /\ LET role == users'[req'[p].user.id].role IN
               req'[p].accessToken.role =
                   IF role.type # "" THEN role.type
                   ELSE IF role.name # "" THEN role.name ELSE "reader"]_vars

\* C22 witness: logins of a created user and of the local user, who has no
\* role, have minted tokens; the one in flight carries the reader role and
\* the provider of its login
C22_Witness ==
    \E p \in Procs :
        /\ req[p].pc = "generate_refresh"
        /\ req[p].accessToken.role = "reader"
        /\ req[p].accessToken.provider = "google"
        /\ req[p].accessToken.email = EmailB
        /\ \E i \in DOMAIN users :
              users[i].role = AuthenticatedRole /\ users[i].email = EmailA

\* slot p's step calls generateAccessToken: at the entry of
\* buildAuthResponse, or in refresh once the user is loaded
CallsGenerate(p) ==
    \/ /\ req[p].pc = "idle"
       /\ \/ req'[p].pc = "generate_refresh"
          \/ /\ resp'.to = p
             /\ resp'.msg \notin {"Authentication required",
                                   "No refresh token provided",
                                   "Logged out successfully"}
    \/ /\ req[p].pc = "refresh_load_user"
       /\ req'[p] # req[p]
       /\ resp'.msg # "User not found"

\* the token slot p's step minted, NoAccess when it minted none
Minted(p) ==
    IF req'[p].pc = "idle" THEN NoAccess ELSE req'[p].accessToken

\* the algorithm follows the key material, and without key material the
\* request ends with an error and no token
AlgorithmByKeys(p) ==
    /\ cfg.jwt = "private" => Minted(p).alg = "RS256"
    /\ cfg.jwt = "secret" => Minted(p).alg = "HS256"
    /\ cfg.jwt = "none" =>
          /\ req'[p].pc = "idle"
          /\ resp'.status = 401
          /\ resp'.accessToken = NoAccess /\ resp'.refreshToken = NoToken
          /\ resp'.cookie = "none"
          /\ refreshTokens' = refreshTokens

\* C23: generateAccessToken signs with the asymmetric algorithm when a
\* private key is configured, with the symmetric one when only a shared
\* secret is, and fails when neither is; the login or refresh request that
\* hits the failure ends there, and no step of a login or of a refresh
\* without key material creates or revokes a RefreshToken row.
C23_AlgorithmAndFailure ==
    /\ [][\A p \in Procs : CallsGenerate(p) => AlgorithmByKeys(p)]_vars
    /\ [][cfg.jwt = "none" /\ refreshTokens' # refreshTokens =>
            \E p \in Procs :
                req[p].pc \in {"logout_revoke", "logout_all_revoke"}]_vars

\* C23 witness: without key material a refresh presenting a valid token has
\* just failed, after a login had failed, and the token's row is as it was
C23_Witness ==
    /\ cfg.jwt = "none"
    /\ resp.msg = "Token refresh failed"
    /\ started >= 2
    /\ refreshTokens = EarlierTokens

----------------------------------------------------------------------------
(* Properties of what the store holds of a credential *)

\* the columns the two creates write
TokenColumns == {"token_hash", "user", "device_type", "device_info",
                 "expires_at", "last_used_at", "revoked", "revoked_at",
                 "revoked_reason"}
OtpColumns == {"email", "code_hash", "expires_at", "attempt_count", "used",
               "used_at", "createdAt"}

\* every row holds the hash of its credential, and no further column: row
\* i of the token table is that of the i-th plaintext returned
OnlyHashesStored ==
    /\ \A i \in DOMAIN refreshTokens :
          /\ DOMAIN refreshTokens[i] = TokenColumns
          /\ refreshTokens[i].token_hash = Sha256(i)
    /\ \A i \in DOMAIN otpCodes :
          /\ DOMAIN otpCodes[i] = OtpColumns
          /\ \E c \in Codes : otpCodes[i].code_hash = Sha256(c)

\* a step that sends a refresh token is the one that created its row
TokenReturnedByItsCreate ==
    resp'.refreshToken # NoToken \/ resp'.cookieValue # NoToken =>
        /\ Len(refreshTokens') = Len(refreshTokens) + 1
        /\ refreshTokens'[Len(refreshTokens')].token_hash =
               Sha256(resp'.refreshToken)
        /\ resp'.cookieValue \in {NoToken, resp'.refreshToken}

\* a step after which a handler holds a code for the mail is the one that
\* created the code's row, and the mail step lets go of it
CodeReturnedByItsCreate(p) ==
    /\ req'[p].pc = "otp_mail" /\ req[p].pc # "otp_mail" =>
          /\ Len(otpCodes') = Len(otpCodes) + 1
          /\ otpCodes'[Len(otpCodes')].code_hash = Sha256(req'[p].otp)
    /\ req[p].pc = "otp_mail" /\ req'[p] # req[p] =>
          /\ req'[p] = Idle
          /\ mails' = mails + 1

\* C24: the store holds no plaintext credential, each RefreshToken row
\* holding only the SHA-256 hash of its token and each OtpCode row only the
\* hash of its code; the plaintext of each is returned once, by the
\* operation that generated it.
C24_OnlyHashesStored ==
    /\ []OnlyHashesStored
    /\ [][TokenReturnedByItsCreate]_vars
    /\ [][\A p \in Procs : CodeReturnedByItsCreate(p)]_vars

\* C24 witness: a code was stored and mailed, and the sign-in it allowed
\* has just returned its refresh token
C24_Witness ==
    /\ otpCodes # << >> /\ mails >= 1
    /\ resp.refreshToken # NoToken
    /\ refreshTokens # << >>

----------------------------------------------------------------------------
(* The entry points: requests to the five endpoints that sign in or
   refresh, with fields present or missing, on an empty store *)

AppleCodes == {"a-ok", "a-bad", "a-garbled"}
GoogleTokens == {"g-ok", "g-https", "g-other-app", "g-bad-issuer",
                 "g-invalid"}

EntryInit ==
    /\ now = 0
    /\ cfg \in [rotate : {FALSE}, jwt : {"private"},
                 googleClientId : {OurClientId, NoField}]
    /\ users = << >>
    /\ refreshTokens = << >>
    /\ otpCodes = << >>
    /\ mails = 0
    /\ req = [p \in Procs |-> Idle]
    /\ resp = NoResp
    /\ started = 0
    /\ succ = {}
    /\ otpLog = << >>
    /\ resolved = << >>

EntryStart(p) ==
    \/ \E c \in AppleCodes \cup {NoField}, pf \in {"ios", NoField} :
          StartAppleAuth(p, c, pf, "Ap", "ua2")
    \/ \E t \in GoogleTokens \cup {NoField}, pf \in {"web", NoField} :
          StartGoogleAuth(p, t, pf, "ua1")
    \/ OtpStart(p, {EmailA})
    \/ \E t \in PresentedTokens : StartRefresh(p, t)

EntryStep(p) ==
    \/ AppleValidate(p)
    \/ GoogleValidate(p)
    \/ OtpStep(p)
    \/ RefreshValidate(p)
    \/ RefreshLoadUser(p)
    \/ RefreshTouch(p)

EntryNext ==
    \/ \E p \in Procs : started < MaxEntryRequests /\ EntryStart(p)
    \/ \E p \in Procs : EntryStep(p)
    \/ Tick(OtpTtl)

EntrySpec == EntryInit /\ [][EntryNext]_vars

\* slot p's step receives a request that lacks a required field
LacksField(p) ==
    \/ \E c \in AppleCodes \cup {NoField}, pf \in {"ios", NoField} :
          /\ c = NoField \/ pf = NoField
          /\ StartAppleAuth(p, c, pf, "Ap", "ua2")
    \/ \E t \in GoogleTokens \cup {NoField}, pf \in {"web", NoField} :
          /\ t = NoField \/ pf = NoField
          /\ StartGoogleAuth(p, t, pf, "ua1")
    \/ \E e \in {EmailA, NoEmail}, a \in BOOLEAN :
          /\ e = NoEmail \/ ~a
          /\ StartSendOtp(p, e, a)
    \/ \E e \in {EmailA, NoEmail}, c \in Codes \cup {NoOtp} :
          /\ e = NoEmail \/ c = NoOtp
          /\ StartVerifyOtp(p, e, c, "ua1")
    \/ StartRefresh(p, NoToken)

\* the request of slot p ends with the step, refused, before any provider
\* call, and nothing is written or mailed
RejectedAtOnce(p) ==
    /\ req'[p] = Idle
    /\ resp'.to = p
    /\ resp'.status \in {400, 401}
    /\ resp'.accessToken = NoAccess /\ resp'.refreshToken = NoToken
    /\ resp'.cookie = "none"
    /\ UNCHANGED <<users, refreshTokens, otpCodes, mails>>

\* C25: a request that lacks a required field (code or platform for Apple,
\* idToken or platform for Google, email or agreedToTerms for send-otp,
\* email or otp for verify-otp, the refresh token for refresh) is rejected
\* before any side effect: no User, RefreshToken or OtpCode row is created
\* or changed, no provider is called and no mail is sent.
C25_MissingFieldRejected ==
    [][\A p \in Procs : LacksField(p) => RejectedAtOnce(p)]_vars

\* C25 witness: after a sign-in that wrote all three tables, a request
\* lacking a field has just been rejected
C25_Witness ==
    /\ resp.status = 400
    /\ users # << >> /\ refreshTokens # << >> /\ otpCodes # << >>

\* slot p takes a step of its provider's validate, and validate fails: the
\* Apple exchange or decoding, a check of the Google adapter, a check of
\* the OTP row, or the hash comparison
ValidateFails(p) ==
    /\ req'[p] # req[p]
    /\ \/ /\ req[p].pc = "apple_validate"
          /\ AppleCheck(AppleExchange(req[p].code)) # "ok"
       \/ /\ req[p].pc = "google_validate"
          /\ GoogleCheck(cfg.googleClientId, now,
                         TokenInfo(req[p].idToken)) # "ok"
       \/ /\ req[p].pc = "otp_find"
          /\ OtpCheck(otpCodes, now, req[p].email, req[p].otp) # "match"
       \/ req[p].pc = "otp_increment"

\* the sign-in goes no further than the throw and issues no session
NoSessionIssued(p) ==
    /\ req'[p].pc \in {"idle", "otp_increment"}
    /\ req'[p].pc = "otp_increment" => req[p].pc = "otp_find"
    /\ req'[p].pc = "idle" => resp'.to = p /\ resp'.status = 401
    /\ resp'.accessToken = NoAccess /\ resp'.refreshToken = NoToken
    /\ resp'.cookie = "none" /\ resp'.cookieValue = NoToken
    /\ UNCHANGED <<users, refreshTokens>>

\* C26: when a provider adapter's validate fails (bad Apple code, bad
\* Google token, audience, issuer or expiry mismatch, any OTP failure) the
\* sign-in is rejected and no session is issued: no RefreshToken row is
\* created, no access token returned, no cookie set, and no User row
\* created or updated.
C26_FailedValidateNoSession ==
    [][\A p \in Procs : ValidateFails(p) => NoSessionIssued(p)]_vars

\* C26 witness: with users and sessions in the store, a Google token of
\* another application has just been refused
C26_Witness ==
    /\ resp.status = 401
    /\ resp.msg = "Google token audience mismatch"
    /\ users # << >> /\ refreshTokens # << >>

----------------------------------------------------------------------------
(* Properties of refresh with and without rotation *)

\* slot p takes a step of a refresh request
RefreshSteps(p) ==
    /\ req'[p] # req[p]
    /\ req[p].pc \in {"refresh_validate", "refresh_load_user",
                       "refresh_touch", "rotate_revoke", "rotate_generate"}

\* without rotation: the steps before the last write nothing; the last one
\* sets last_used_at on the row of the presented token and nothing else,
\* and answers with the access token minted and no refresh token
TouchOnly(p) ==
    /\ req[p].pc \in {"refresh_validate", "refresh_load_user"} =>
          /\ refreshTokens' = refreshTokens
          /\ req'[p].pc \in {"idle", "refresh_load_user", "refresh_touch"}
          /\ resp'.status # 200
    /\ req[p].pc = "refresh_touch" =>
          LET id == req[p].record.id IN
          /\ id = RowOf(req[p].rawToken)
          /\ refreshTokens' =
                 [refreshTokens EXCEPT ![id].last_used_at = now]
          /\ refreshTokens'[id].expires_at = refreshTokens[id].expires_at
          /\ Usable(refreshTokens', id) <=> Usable(refreshTokens, id)
          /\ req'[p] = Idle
          /\ resp'.status = 200
          /\ resp'.accessToken = req[p].accessToken
          /\ resp'.accessToken.alg \in {"RS256", "HS256"}
          /\ resp'.accessToken.sub = String(refreshTokens[id].user)
          /\ resp'.refreshToken = NoToken
          /\ resp'.cookie = "none" /\ resp'.cookieValue = NoToken
    /\ req[p].pc \notin {"rotate_revoke", "rotate_generate"}
    /\ UNCHANGED users

\* with rotation: the successful refresh answers with the refresh token
\* that replaces the presented one
ReplacementSent(p) ==
    /\ req[p].pc # "refresh_touch"
    /\ resp'.status = 200 =>
          /\ req[p].pc = "rotate_generate"
          /\ resp'.refreshToken \notin {NoToken, req[p].rawToken}
          /\ RowOf(resp'.refreshToken) = NoId
          /\ refreshTokens' =
                 GenerateRefreshToken(refreshTokens, now, resp'.refreshToken,
                     req[p].user.id,
                     [deviceType |-> req[p].record.device_type,
                      deviceInfo |-> req[p].record.device_info])
          /\ resp'.accessToken = req[p].accessToken
          /\ resp'.accessToken.alg \in {"RS256", "HS256"}

\* C27: with rotation disabled a successful refresh only sets lastUsedAt
\* on the presented token's row, the token staying as valid as it was with
\* the same expiresAt, no RefreshToken row being created or revoked, and the
\* response carrying a new access token and no refresh token; with rotation
\* enabled the response carries the replacement refresh token.
C27_RefreshByPolicy ==
    [][\A p \in Procs :
        RefreshSteps(p) =>
            IF cfg.rotate THEN ReplacementSent(p) ELSE TouchOnly(p)]_vars

\* C27 witness: rotation being disabled, a token issued at the start has
\* just been refreshed at the last instant of its lifetime
C27_Witness ==
    /\ ~cfg.rotate
    /\ resp.status = 200 /\ resp.by.pc = "refresh_touch"
    /\ now = RefreshTtl
    /\ \E i \in DOMAIN refreshTokens :
          /\ i = RowOf(resp.by.rawToken)
          /\ refreshTokens[i].last_used_at = now
          /\ refreshTokens[i].expires_at = RefreshTtl
          /\ Validates(resp.by.rawToken)

----------------------------------------------------------------------------
(* Properties of the first email sign-in of an address *)

\* slot p's request is an email sign-in whose code validate has accepted
VerifiedEmail(p) ==
    /\ req[p].pc \in {"foc_find_provider", "foc_find_email", "foc_role",
                       "foc_username", "foc_create", "foc_update"}
    /\ req[p].opts.authProvider = "email"

\* the resolver takes its update branch only for an address a row holds
UnknownNeverUpdated ==
    \A p \in Procs :
        VerifiedEmail(p) /\ req[p].pc = "foc_update" =>
            Holding(req[p].opts.email) # {}

\* an email sign-in for an address no row holds is neither turned away nor
\* sent to the update branch by a step of the resolver
GoesOnToCreate(p) ==
    /\ VerifiedEmail(p) /\ req'[p] # req[p]
    /\ Holding(req[p].opts.email) = {}
    => req'[p].pc \in {"foc_find_email", "foc_role", "foc_username",
                        "foc_create", "generate_refresh"}

\* the create of an email sign-in for an address no row holds adds one
\* row, with the fields of a verified email user, and goes on to the
\* session of that user
CreatesEmailUser(p) ==
    /\ VerifiedEmail(p) /\ req[p].pc = "foc_create" /\ req'[p] # req[p]
    /\ Holding(req[p].opts.email) = {}
    => LET id == Len(users) + 1
           email == req[p].opts.email
       IN  /\ Len(users') = id
           /\ \A i \in DOMAIN users : users'[i] = users[i]
           /\ users'[id].id = id
           /\ users'[id].email = email
           /\ users'[id].auth_provider = "email"
           /\ users'[id].provider_id = email
           /\ users'[id].confirmed /\ ~users'[id].blocked
           /\ users'[id].role = AuthenticatedRole
           /\ ~UsernameExists(users'[id].username)
           /\ req'[p].pc = "generate_refresh"
           /\ req'[p].user = users'[id]

\* the session an email sign-in ends with is one of the user resolved
SessionOfResolved(p) ==
    /\ req[p].pc = "generate_refresh" /\ req'[p] # req[p]
    /\ req[p].platform = "email"
    => /\ req'[p] = Idle
       /\ resp'.status = 200
       /\ resp'.user = req[p].user.id
       /\ resp'.accessToken.sub = String(req[p].user.id)
       /\ resp'.refreshToken # NoToken
       /\ refreshTokens'[Len(refreshTokens')].user = req[p].user.id
       /\ ValidateRefreshToken(refreshTokens', now',
                               resp'.refreshToken) # NoId

\* C28: a successful email-OTP verification for an email that no User row
\* holds creates exactly one User with that email, authProvider = email,
\* providerId = the email, confirmed, not blocked and with the default
\* authenticated role, and issues a session for that user.
C28_FirstEmailSignIn ==
    /\ []UnknownNeverUpdated
    /\ [][\A p \in Procs : GoesOnToCreate(p)]_vars
    /\ [][\A p \in Procs : CreatesEmailUser(p)]_vars
    /\ [][\A p \in Procs : SessionOfResolved(p)]_vars

\* C28 witness: both addresses have signed in for the first time, and the
\* second, whose username needed a suffix, has just got its session
C28_Witness ==
    /\ Len(users) = 2
    /\ users[2].auth_provider = "email" /\ users[2].confirmed
    /\ users[2].username = UsernameTry(UsernameBase(users[2].email), 1)
    /\ resp.status = 200 /\ resp.user = 2 /\ resp.refreshToken # NoToken

----------------------------------------------------------------------------
(* Properties of the Google adapter *)

\* slot p's step is a validate of the Google adapter that returned
GoogleAccepts(p) ==
    req[p].pc = "google_validate" /\ req'[p].pc = "foc_find_provider"

\* C29 (as claimed): the Google adapter's validate succeeds only if the
\* introspection call succeeded, the token's audience is the application's
\* client identifier, the issuer is one of the two accepted issuer strings
\* and the token has not expired; a token issued for another application
\* is rejected in every configuration.
C29_GoogleAcceptsOnlyOurs ==
    [][\A p \in Procs :
        GoogleAccepts(p) =>
            LET info == TokenInfo(req[p].idToken) IN
            /\ info.ok
            /\ info.aud = OurClientId
            /\ info.iss \in {"accounts.google.com",
                              "https://accounts.google.com"}
            /\ now <= info.exp]_vars

----------------------------------------------------------------------------
(* generateUniqueUsername on a given user table: a first sign-in that has
   found no user, on tables that hold some of the usernames of its base *)

\* the usernames a table may hold: the base of the two addresses, the base
\* with the suffixes 1 .. MaxTaken - 1, and one of another base
Candidates ==
    [k \in 1..MaxTaken |-> UsernameTry(UsernameBase(EmailA), k - 1)]
        \o << <<"b">> >>

\* a user registered earlier under the k-th candidate
EarlierUser(id, k) ==
    [LocalUser EXCEPT !.id = id,
                      !.email = << [i \in 1..k |-> "b"], "z.com" >>,
                      !.username = Candidates[k]]

\* the table of the users registered under the candidates of S
TableOf(S) ==
    LET nth(n) == CHOOSE k \in S : Cardinality({j \in S : j < k}) = n - 1
    IN  [n \in 1..Cardinality(S) |-> EarlierUser(n, nth(n))]

UsernameInit ==
    /\ now = 0
    /\ cfg = [rotate |-> FALSE, jwt |-> "private",
              googleClientId |-> OurClientId]
    /\ users \in {TableOf(S) : S \in SUBSET DOMAIN Candidates}
    /\ refreshTokens = << >>
    /\ otpCodes = << >>
    /\ mails = 0
    /\ \E e \in Emails :
          req = [p \in Procs |->
                    IF p = "p1"
                    THEN [pc |-> "foc_role", opts |-> EmailOtp(e),
                          platform |-> "email", ua |-> "ua1",
                          found |-> NoUser]
                    ELSE Idle]
    /\ resp = NoResp
    /\ started = 1
    /\ succ = {}
    /\ otpLog = << >>
    /\ resolved = << >>

UsernameNext ==
    \/ \E p \in Procs : FocRole(p)
    \/ \E p \in Procs : FocUsername(p)

\* every awaited findOne returns
UsernameSpec ==
    UsernameInit /\ [][UsernameNext]_vars /\ WF_vars(UsernameNext)

\* the loop has made at most one turn per user of the table
TurnsBounded ==
    \A p \in Procs :
        req[p].pc = "foc_username" =>
            /\ req[p].attempt <= Len(users)
            /\ \A k \in 0..(req[p].attempt - 1) :
                  UsernameExists(UsernameTry(req[p].base, k))

\* the username returned is held by no user, and is the sanitized local
\* part, or the sanitized local part with the smallest free suffix
ReturnsFirstFree ==
    \A p \in Procs :
        req[p].pc = "foc_create" =>
            LET local == req[p].opts.email[1]
                base == [i \in DOMAIN local |->
                            IF local[i] \in {"a", "b", "_"} THEN local[i]
                            ELSE "_"]
                name(k) == IF k = 0 THEN base ELSE base \o <<"_", k>>
                k == req[p].attempt
            IN  /\ req[p].base = base
                /\ \A i \in DOMAIN users : users[i].username # name(k)
                /\ \A j \in 0..(k - 1) :
                      \E i \in DOMAIN users : users[i].username = name(j)

\* C30: generateUniqueUsername terminates for every finite User table and
\* returns a username that no existing user holds: the sanitized local part
\* of the email when that is free, otherwise the sanitized local part
\* followed by _k for the smallest k >= 1 that is free.
C30_UniqueUsername ==
    /\ [](TurnsBounded /\ ReturnsFirstFree)
    /\ <>(req["p1"].pc = "foc_create")

\* C30 witness: the base and its first suffix being taken, and a later
\* suffix too, the loop has returned the base with suffix 2
C30_Witness ==
    /\ req["p1"].pc = "foc_create" /\ req["p1"].attempt = 2
    /\ UsernameExists(UsernameTry(req["p1"].base, 3))
    /\ UsernameExists(<<"b">>)

----------------------------------------------------------------------------
(* Concurrent first-time sign-ins *)

\* the User rows created for the identity a sign-in presents (a row is
\* created with the email of the sign-in, and no update writes email)
RowsOf(o) == {u \in DOMAIN users : users[u].email = o.email}

----------------------------------------------------------------------------
(* Logout from all devices while refresh requests are in flight: user 1
   holds two sessions; there are no sign-ins and no single logouts *)

\* the token table after a web and an ios sign-in of user 1
TwoSessions ==
    GenerateRefreshToken(
        GenerateRefreshToken(<< >>, 0, 1, 1,
                             [deviceType |-> "web", deviceInfo |-> "ua1"]),
        0, 2, 1, [deviceType |-> "ios", deviceInfo |-> "ua2"])

LogoutAllInit ==
    /\ now = 0
    /\ cfg \in [rotate : BOOLEAN, jwt : {"private"},
                googleClientId : {OurClientId}]
    /\ users = TwoUsers
    /\ refreshTokens = TwoSessions
    /\ otpCodes = << >>
    /\ mails = 0
    /\ req = [p \in Procs |-> Idle]
    /\ resp = NoResp
    /\ started = 0
    /\ succ = {}
    /\ resolved = << >>
    /\ otpLog = << >>

\* refresh and logout-all requests whose steps interleave
LogoutAllNext ==
    \/ \E p \in Procs, t \in PresentedTokens :
          started < MaxRequests /\ StartRefresh(p, t)
    \/ \E p \in Procs, u \in Callers :
          started < MaxRequests /\ StartLogoutAll(p, u)
    \/ \E p \in Procs :
          \/ RefreshValidate(p)
          \/ RefreshLoadUser(p)
          \/ RotateRevoke(p)
          \/ RotateGenerate(p)
          \/ RefreshTouch(p)
          \/ LogoutAllRevoke(p)
    \/ Tick(RefreshTtl)

LogoutAllSpec == LogoutAllInit /\ [][LogoutAllNext]_vars

\* a logout-all request of the user has completed: only its bulk revoke
\* writes the reason logout where no single logout runs
LoggedOutEverywhere(userId) ==
    \E i \in DOMAIN refreshTokens :
        /\ refreshTokens[i].user = userId
        /\ refreshTokens[i].revoked_reason = "logout"

\* C32: once a logout-all request for user U has completed, and while U
\* does not sign in again, no refresh token owned by U validates, whatever
\* refresh requests of U were in flight when logout-all ran.
C32_LogoutAllEndsSessions ==
    \A u \in DOMAIN users :
        LoggedOutEverywhere(u) =>
            \A t \in IssuedTokens :
                refreshTokens[RowOf(t)].user = u => ~Validates(t)

----------------------------------------------------------------------------
(* Earlier codes of an email *)

\* validate of slot p finds a row whose hash matches the submitted code
\* and goes on to mark it used
Accepts(p) == req[p].pc = "otp_find" /\ req'[p].pc = "otp_mark_used"

\* the rows generateAndStore created for the email after row i
NewerRows(i) ==
    {j \in DOMAIN otpCodes : j > i /\ otpCodes[j].email = otpCodes[i].email}

\* C33: after generateAndStore(email) has created a newer row, validate
\* never accepts a code issued earlier for that email, also after the
\* newer code has been used.
C33_NewerCodeSupersedes ==
    [][\A p \in Procs :
          Accepts(p) => NewerRows(req'[p].otpRecord.id) = {}]_vars

----------------------------------------------------------------------------
(* Concurrent send-otp requests *)

\* the rows of row i's email created in the hour that begins with row i
CreatedInHourFrom(i) ==
    {j \in DOMAIN otpCodes :
        /\ otpCodes[j].email = otpCodes[i].email
        /\ otpCodes[j].createdAt >= otpCodes[i].createdAt
        /\ otpCodes[j].createdAt < otpCodes[i].createdAt + Hour}

\* C34: for any interleaving of concurrent emailSendOtp requests for one
\* email, at most 5 OtpCode rows of that email are ever created within any
\* one-hour window.
C34_AtMostFivePerHour ==
    \A i \in DOMAIN otpCodes : Cardinality(CreatedInHourFrom(i)) <= RateLimit

----------------------------------------------------------------------------
(* Sign-ins that present an email the provider has not verified: Google
   sign-ins of two accounts with the address EmailA, one verified and one
   not, and email OTP sign-ins of EmailA, on an empty user table or on the
   table that holds the email account of EmailA *)

MergeTokens == {"g-ok", "g-unverified"}

MergeInit ==
    /\ now = 0
    /\ cfg = [rotate |-> FALSE, jwt |-> "private",
              googleClientId |-> OurClientId]
    /\ users \in {<< >>, <<TwoUsers[1]>>}
    /\ refreshTokens = << >>
    /\ otpCodes = << >>
    /\ mails = 0
    /\ req = [p \in Procs |-> Idle]
    /\ resp = NoResp
    /\ started = 0
    /\ succ = {}
    /\ otpLog = << >>
    /\ resolved = << >>

MergeNext ==
    \/ \E p \in Procs, t \in MergeTokens :
          started < MaxSignIns /\ StartGoogleAuth(p, t, "web", "ua1")
    \/ \E p \in Procs :
          /\ started < MaxSignIns
          /\ SignInValidated(p, EmailOtp(EmailA), "email", "ua1")
    \/ \E p \in Procs : GoogleValidate(p)
    \/ \E p \in Procs : ResolveStep(p)

MergeSpec == MergeInit /\ [][MergeNext]_vars

\* slot p's resolve found, by email only, a User row of another provider
\* and updates it
MergesByEmail(p) ==
    /\ req[p].pc = "foc_update" /\ req'[p] # req[p]
    /\ ~HasKey(req[p].found, req[p].opts)
    /\ req[p].found.auth_provider # req[p].opts.authProvider

\* C35: a sign-in whose provider reports emailVerified=false is never
\* merged into a User row found only by email: it does not rewrite the
\* authProvider or providerId of an account created through another
\* provider and is not given a session for it.
C35_UnverifiedNeverMerged ==
    [][\A p \in Procs :
          MergesByEmail(p) /\ ~req[p].opts.confirmed =>
              /\ users'[req[p].found.id].auth_provider
                     = users[req[p].found.id].auth_provider
              /\ users'[req[p].found.id].provider_id
                     = users[req[p].found.id].provider_id
              /\ req'[p].pc # "generate_refresh"]_vars

----------------------------------------------------------------------------
(* A blocked account: an administrator has set blocked on user 1, who
   signed in on the web before that *)

BlockedInit ==
    /\ now = 0
    /\ cfg \in [rotate : BOOLEAN, jwt : {"private"},
                googleClientId : {OurClientId}]
    /\ users = << [TwoUsers[1] EXCEPT !.blocked = TRUE] >>
    /\ refreshTokens = EarlierTokens
    /\ otpCodes = << >>
    /\ mails = 0
    /\ req = [p \in Procs |-> Idle]
    /\ resp = NoResp
    /\ started = 0
    /\ succ = {}
    /\ otpLog = << >>
    /\ resolved = << >>

\* email OTP sign-ins of user 1 and of a new address, and refresh requests
BlockedNext ==
    \/ \E p \in Procs, e \in Emails :
          /\ started < MaxRequests
          /\ SignInValidated(p, EmailOtp(e), "email", "ua1")
    \/ \E p \in Procs, t \in PresentedTokens :
          started < MaxRequests /\ StartRefresh(p, t)
    \/ \E p \in Procs : ResolveStep(p)
    \/ \E p \in Procs :
          \/ RefreshValidate(p)
          \/ RefreshLoadUser(p)
          \/ RotateRevoke(p)
          \/ RotateGenerate(p)
          \/ RefreshTouch(p)

BlockedSpec == BlockedInit /\ [][BlockedNext]_vars

\* the users whose blocked flag is true
BlockedUsers == {u \in DOMAIN users : users[u].blocked}

\* C36: a user whose blocked flag is true is never issued a session: no
\* sign-in and no refresh request returns an access token of a blocked
\* user or creates a RefreshToken row for one.
C36_BlockedGetsNoSession ==
    [][/\ resp'.accessToken.alg # "none" =>
             \A u \in BlockedUsers : resp'.accessToken.sub # String(u)
       /\ \A i \in DOMAIN refreshTokens' \ DOMAIN refreshTokens :
             refreshTokens'[i].user \notin BlockedUsers]_vars

----------------------------------------------------------------------------
(* The record of a revocation *)

\* C37: revocation of a refresh token is recorded once: revoked never goes
\* from true back to false, and once a row is revoked its revoked_at and
\* revoked_reason are not changed by any later revoke, rotation, logout or
\* logout-all.
C37_RevocationRecordedOnce ==
    [][\A i \in DOMAIN refreshTokens :
          refreshTokens[i].revoked =>
              /\ refreshTokens'[i].revoked
              /\ refreshTokens'[i].revoked_at = refreshTokens[i].revoked_at
              /\ refreshTokens'[i].revoked_reason
                     = refreshTokens[i].revoked_reason]_vars

----------------------------------------------------------------------------
(* The confirmed flag after an email OTP sign-in *)

\* slot p's findOrCreateUser returns to its handler, which goes on to
\* buildAuthResponse with the user returned
Resolves(p) ==
    /\ req[p].pc \in {"foc_create", "foc_update"}
    /\ req'[p].pc = "generate_refresh"

\* C38: after every successful email OTP sign-in the resolved user has
\* confirmed = true, also when its row existed with confirmed = false
\* because a provider that reported the email as unverified created it.
C38_EmailSignInConfirms ==
    [][\A p \in Procs :
          Resolves(p) /\ req[p].opts.authProvider = "email" =>
              /\ req'[p].user.confirmed
              /\ users'[req'[p].user.id].confirmed]_vars

----------------------------------------------------------------------------
(* verify-otp requests that fail: one code was mailed to EmailA; the
   deployment has its signing key or lacks it; requests run one after
   another *)

VerifyInit ==
    /\ now = 0
    /\ cfg \in [rotate : {FALSE}, jwt : {"private", "none"},
                googleClientId : {OurClientId}]
    /\ users \in {<< >>, <<TwoUsers[1]>>}
    /\ refreshTokens = << >>
    /\ otpCodes = OtpStore(<< >>, 0, EmailA, 111111)
    /\ otpLog = << [wrong |-> 0, right |-> 0] >>
    /\ mails = 1
    /\ req = [p \in Procs |-> Idle]
    /\ resp = NoResp
    /\ started = 0
    /\ succ = {}
    /\ resolved = << >>

VerifyNext ==
    \/ \E p \in Procs, e \in {EmailA, NoEmail}, c \in Codes \cup {NoOtp} :
          /\ started < MaxOtpRequests /\ NoneInFlight
          /\ StartVerifyOtp(p, e, c, "ua1")
    \/ \E p \in Procs :
          \/ VerifyOtpFind(p)
          \/ VerifyOtpIncrement(p)
          \/ VerifyOtpMarkUsed(p)
    \/ \E p \in Procs : ResolveStep(p)
    \/ Tick(OtpTtl)

VerifySpec == VerifyInit /\ [][VerifyNext]_vars

\* slot p's handler ends with an error response
EndsWithError(p) ==
    req[p].pc # "idle" /\ resp'.to = p /\ resp'.status # 200

\* the OtpCode rows consumed so far
UsedRows == {i \in DOMAIN otpCodes : otpCodes[i].used}

\* C39: a verify-otp request that ends with an error response leaves the
\* used flag of the OtpCode rows and the User table unchanged: between
\* requests every consumed row stands for a session returned, and the step
\* that sends an error response writes no User row.
C39_FailedVerifyChangesNothing ==
    /\ [](NoneInFlight => Cardinality(UsedRows) <= Len(refreshTokens))
    /\ [][\A p \in Procs : EndsWithError(p) => users' = users]_vars

----------------------------------------------------------------------------
(* The refresh cookie and the device type recorded *)

\* C40: a response that carries a refresh token sets the refresh cookie
\* exactly when the row of that token has device_type web: every sign-in
\* that records device_type web sets the cookie, and a rotating refresh of
\* an ios or android token sets none.
C40_CookieExactlyForWeb ==
    resp.refreshToken # NoToken =>
        (resp.cookie = "set" <=>
            refreshTokens[RowOf(resp.refreshToken)].device_type = "web")

====
